---- MODULE Spec2Model ----
(***************************************************************************)
(* hac-client-core: the session life cycle of HacClient (client.py), the   *)
(* credential provider BasicAuthHandler (auth.py) and the session cache    *)
(* SessionManager (session.py).                                            *)
(*                                                                         *)
(* One client instance is driven by one caller.  A public call (login or   *)
(* one of the seven operations) runs from pc = "idle" through the          *)
(* positions of its code and back to "idle"; each step that talks to the   *)
(* server or to the file system draws the server's response or the file    *)
(* system's fault.  While a call runs no other action is enabled, so the   *)
(* steps of a call are exactly the statements of its handler, in order.    *)
(***************************************************************************)
EXTENDS Integers, Sequences, FiniteSets, TLC

(* ---------------------------------------------------------------- values *)

\* Python's None, and the empty Optional: an Optional is <<>> or <<value>>.
None == "None"

\* Largest value of time.time() the model lets the clock reach.
MaxClock == 1

\* The ROUTE values a load balancer hands out.
Routes == {"R1"}

\* client.py:58, the default of HacClient's timeout parameter.
DefaultTimeout == 30
\* client.py:216, the timeout of the validation probe.
ProbeTimeout == 5

\* The caller's configuration: one (base_url, username, environment) triple.
BaseUrls == {<<"h">>}
Usernames == {<<"u">>}
Environments == {<<"e">>}
Password == "nimda"

\* f"ROUTE={route}" (client.py:275, 310) and its inverse (client.py:446).
RouteCookieString(route) == IF route = None THEN None ELSE "ROUTE=" \o route
RouteValue(route_cookie) ==
    CHOOSE r \in Routes \cup {None} : RouteCookieString(r) = route_cookie

Exceptions ==
    {"HacAuthenticationError", "HacClientError", "RuntimeError",
     "AttributeError", "OSError", "UnicodeDecodeError"}

\* The public operations of HacClient that need an authenticated session.
Operations ==
    {"execute_groovy", "execute_flexiblesearch", "import_impex",
     "get_update_data", "get_pending_patches", "execute_update",
     "get_update_log"}

VARIABLES
    base_url,           \* HacClient.base_url
    environment,        \* HacClient.environment
    timeout,            \* HacClient.timeout
    load_balancer,      \* the ROUTE value the deployment's load balancer sets, or None
    auth_handler,       \* the AuthHandler instance: kind, username, _password, _credentials_used
    session_persistence,\* HacClient.session_manager is not None
    session_info,       \* HacClient.session_info: <<>> or <<SessionInfo>>
    cookies,            \* HacClient.http_session.cookies: JSESSIONID and ROUTE
    cache,              \* the cache directory: key |-> <<>> or <<SessionMetadata>>
    clock,              \* time.time()
    pc,                 \* position of the running call, "idle" between calls
    op,                 \* the public method running, or the last one run
    include_pending_patches, \* argument of execute_update
    locals,             \* login()'s csrf_token, session_id, route_cookie, credentials
    outcome,            \* "running", "returned", or the exception the call raised
    result,             \* what the last call returned
    reqs,               \* the HTTP requests the running/last call issued, in order
    response,           \* the last HTTP response received (or the exception raised)
    io_error,           \* a file operation of the running/last call failed
    had_session,        \* session_info was an authenticated session when the call began
    had_entry,          \* the client's cache entry existed when the call began
    auto_login,         \* the running/last call entered login() from _ensure_authenticated
    login_result,       \* "none", "returned" or "raised": how that call's login() ended
    follows             \* what the running/last call came after, see Follows

vars ==
    <<base_url, environment, timeout, load_balancer, auth_handler,
      session_persistence,
      session_info, cookies, cache, clock, pc, op, include_pending_patches,
      locals, outcome, result, reqs, response, io_error, had_session,
      had_entry, auto_login, login_result, follows>>

\* What a call never changes: the client's configuration.
config ==
    <<base_url, environment, timeout, load_balancer, session_persistence>>
\* What only the beginning of a call sets.
call ==
    <<op, include_pending_patches, had_session, had_entry, auto_login,
      follows>>

(* ------------------------------------------------------------- responses *)

\* What the server (or the network) answers to one request.  exc is the
\* requests.RequestException raised instead of a response ("none" when a
\* response arrived); jssc and juser say whether the body contains
\* 'j_spring_security_check' and 'name="j_username"'; csrf is the value of the
\* page's _csrf input and meta the content of its _csrf meta tag (None
\* without the element); set_sid and set_route are the Set-Cookie values of
\* JSESSIONID and ROUTE; body is the kind of the response body.
Resp(exc, status, jssc, juser, csrf, set_sid, set_route, body) ==
    [exc |-> exc, status |-> status, jssc |-> jssc, juser |-> juser,
     csrf |-> csrf, meta |-> None, set_sid |-> set_sid, set_route |-> set_route,
     body |-> body]

\* The page of response r with a _csrf meta tag of content m.
WithMeta(r, m) == [r EXCEPT !.meta = m]

NoResponse == Resp("none", 0, FALSE, FALSE, None, None, None, "none")
Failure(exc) == Resp(exc, 0, FALSE, FALSE, None, None, None, "none")

\* Answers to the validation probe GET /hac/: the console's home page, the
\* login form the server redirects an expired session to, a page with only
\* one of the two markers, a server error, or no answer.
ProbeResponses ==
    {Failure("Timeout")}
    \cup {Resp("none", 200, j, u, None, None, None, "html") : j, u \in BOOLEAN}
    \cup {Resp("none", 500, FALSE, FALSE, None, None, None, "html")}

\* The ROUTE cookie that goes with a Set-Cookie of JSESSIONID: the load
\* balancer lb (None without one) pins every session it sees opened.
RouteOf(lb, sid) == IF sid = None THEN None ELSE lb

\* The _csrf elements of a login page, as <<input's value, meta's content>>:
\* neither element, the input alone, the meta tag alone, or both.
CsrfElements == {<<None, None>>, <<"T1", None>>, <<None, "T1">>, <<"T1", "T0">>}

\* Answers to the login-page GET /hac/: the login form, with or without a
\* CSRF token and with or without opening a session.
LoginPageResponses(lb) ==
    {Failure("Timeout")}
    \cup {WithMeta(Resp("none", 200, TRUE, TRUE, t[1], s, RouteOf(lb, s), "html"), t[2]) :
             t \in CsrfElements, s \in {None, "S1"}}
    \cup {Resp("none", 500, FALSE, FALSE, None, None, None, "html")}

\* Answers to the login-check POST /hac/j_spring_security_check (redirects
\* followed): the console's home page (the session kept or replaced, a new
\* CSRF token or none), the login form again, or an error.
LoginCheckResponses(lb) ==
    {Failure("ConnectionError")}
    \cup {Resp("none", 200, FALSE, u, t, s, RouteOf(lb, s), "html") :
             u \in BOOLEAN, t \in {None, "T2"}, s \in {None, "S2"}}
    \cup {Resp("none", 200, TRUE, TRUE, "T1", None, None, "html")}
    \cup {Resp("none", 401, FALSE, FALSE, None, None, None, "html")}

\* Answers to an operation's request.
OperationResponses ==
    {Failure("Timeout")}
    \cup {Resp("none", 200, FALSE, FALSE, None, None, None, b) :
             b \in {"json_object", "json_other", "not_json"}}
    \cup {Resp("none", st, FALSE, FALSE, None, None, None, "html") :
             st \in {401, 403, 405, 500}}

\* File-system faults one step of a call can meet.
IOFaults == {"none", "read", "write", "unlink"}

(* ----------------------------------------------------------- auth.py *)

\* BasicAuthHandler.__init__: the handler as constructed.  kind is the class:
\* "BasicAuthHandler", or "AuthHandler" for a subclass of the abstract base
\* whose get_initial_credentials keeps no state.
NewHandler(kind, username) ==
    [kind |-> kind, username |-> username, password |-> Password,
     credentials_used |-> FALSE]

NoCredentials == [j_username |-> <<>>, j_password |-> None]

\* get_initial_credentials: the exception raised ("none" if it returns), the
\* dictionary returned and the handler afterwards.
get_initial_credentials(h) ==
    IF h.kind = "BasicAuthHandler"
    THEN IF h.credentials_used
         THEN [raised |-> "RuntimeError", credentials |-> NoCredentials,
               handler |-> h]
         ELSE [raised |-> "none",
               credentials |-> [j_username |-> h.username,
                                j_password |-> h.password],
               handler |-> [h EXCEPT !.credentials_used = TRUE,
                                     !.password = None]]
    ELSE [raised |-> "none",
          credentials |-> [j_username |-> h.username, j_password |-> h.password],
          handler |-> h]

(* -------------------------------------------------------- session.py *)

\* SessionManager._get_session_key: the key string f"{base_url}:{username}:
\* {environment}" (its md5 digest names the file; the digest is taken to be
\* injective on these strings).
_get_session_key(url, user, env) ==
    url \o <<":">> \o user \o <<":">> \o env

CacheKeys ==
    {_get_session_key(b, u, e) :
        b \in BaseUrls, u \in Usernames, e \in Environments}

\* SessionMetadata as save_session builds it.
SessionMetadata(session_id, csrf_token, route_cookie, env, url, user, created_at, last_used_at) ==
    [session_id |-> session_id, csrf_token |-> csrf_token,
     route_cookie |-> route_cookie, environment |-> env,
     base_url |-> url, username |-> user, created_at |-> created_at,
     last_used_at |-> last_used_at, is_authenticated |-> TRUE]

\* The fields of SessionMetadata (session.py:16-40); is_authenticated has a
\* default, the others are required.
MetadataFields ==
    {"session_id", "csrf_token", "route_cookie", "environment", "base_url",
     "username", "created_at", "last_used_at", "is_authenticated"}
RequiredFields == MetadataFields \ {"is_authenticated"}

\* What a cache file holds is a record: the members of the JSON object in it,
\* or [text |-> t] when the file is not a JSON object: bytes that do not
\* decode as text ("not_text"), text that is not JSON ("not_json"), JSON that
\* is not an object ("not_object").
\* json.load(f) and SessionMetadata(**data), lines 108-110: the exception
\* raised for the file content `data`, "none" without one.
ReadError(data) ==
    IF "text" \in DOMAIN data
    THEN IF data.text = "not_text" THEN "UnicodeDecodeError"
         ELSE IF data.text = "not_json" THEN "JSONDecodeError"
         ELSE "TypeError"
    ELSE IF RequiredFields \subseteq DOMAIN data
            /\ DOMAIN data \subseteq MetadataFields
         THEN "none" ELSE "TypeError"

\* SessionMetadata(**data) for a well-formed object: the default fills in.
FromData(data) ==
    IF "is_authenticated" \in DOMAIN data THEN data
    ELSE data @@ [is_authenticated |-> TRUE]

\* SessionManager.load_session: the exception raised, the Optional returned
\* and the cache afterwards.  A missing file is None without any read; the
\* except clause names json.JSONDecodeError, TypeError and KeyError and
\* unlinks the file; an I/O error of open() or of that unlink and a
\* UnicodeDecodeError are not among the exceptions the method catches.
load_session(c, url, user, env, io) ==
    LET key == _get_session_key(url, user, env) IN
    IF c[key] = <<>>
    THEN [raised |-> "none", metadata |-> <<>>, cache |-> c, io_error |-> FALSE]
    ELSE IF io = "read"
    THEN [raised |-> "OSError", metadata |-> <<>>, cache |-> c,
          io_error |-> TRUE]
    ELSE IF ReadError(c[key][1]) = "none"
    THEN [raised |-> "none", metadata |-> <<FromData(c[key][1])>>,
          cache |-> c, io_error |-> FALSE]
    ELSE IF ReadError(c[key][1]) \notin {"JSONDecodeError", "TypeError"}
    THEN [raised |-> ReadError(c[key][1]), metadata |-> <<>>, cache |-> c,
          io_error |-> FALSE]
    ELSE IF io = "unlink"
    THEN [raised |-> "OSError", metadata |-> <<>>, cache |-> c,
          io_error |-> TRUE]
    ELSE [raised |-> "none", metadata |-> <<>>,
          cache |-> [c EXCEPT ![key] = <<>>], io_error |-> FALSE]

\* save_session that stamps created_at anew on every save.
save_session_restamped(c, url, user, env, session_id, csrf_token, route_cookie, now, io) ==
    LET key == _get_session_key(url, user, env)
        existing == load_session(c, url, user, env, io)
        metadata ==
            SessionMetadata(session_id, csrf_token, route_cookie, env,
                            url, user, now, now)
    IN  IF existing.raised # "none"
        THEN [raised |-> existing.raised, cache |-> existing.cache,
              io_error |-> existing.io_error]
        ELSE IF io = "write"
        THEN [raised |-> "none", cache |-> existing.cache, io_error |-> TRUE]
        ELSE [raised |-> "none",
              cache |-> [existing.cache EXCEPT ![key] = <<metadata>>],
              io_error |-> FALSE]

\* save_session that does not store the route cookie.
save_session_without_route(c, url, user, env, session_id, csrf_token, route_cookie, now, io) ==
    LET key == _get_session_key(url, user, env)
        existing == load_session(c, url, user, env, io)
        created_at ==
            IF existing.metadata # <<>>
            THEN existing.metadata[1].created_at ELSE now
        metadata ==
            SessionMetadata(session_id, csrf_token, None, env,
                            url, user, created_at, now)
    IN  IF existing.raised # "none"
        THEN [raised |-> existing.raised, cache |-> existing.cache,
              io_error |-> existing.io_error]
        ELSE IF io = "write"
        THEN [raised |-> "none", cache |-> existing.cache, io_error |-> TRUE]
        ELSE [raised |-> "none",
              cache |-> [existing.cache EXCEPT ![key] = <<metadata>>],
              io_error |-> FALSE]

\* SessionManager.save_session: created_at is kept from the existing entry;
\* a failing write is swallowed, a failing read of the existing entry is not.
save_session(c, url, user, env, session_id, csrf_token, route_cookie, now, io) ==
    LET key == _get_session_key(url, user, env)
        existing == load_session(c, url, user, env, io)
        created_at ==
            IF existing.metadata # <<>>
            THEN existing.metadata[1].created_at ELSE now
        metadata ==
            SessionMetadata(session_id, csrf_token, route_cookie, env,
                            url, user, created_at, now)
    IN  IF existing.raised # "none"
        THEN [raised |-> existing.raised, cache |-> existing.cache,
              io_error |-> existing.io_error]
        ELSE IF io = "write"
        THEN [raised |-> "none", cache |-> existing.cache, io_error |-> TRUE]
        ELSE [raised |-> "none",
              cache |-> [existing.cache EXCEPT ![key] = <<metadata>>],
              io_error |-> FALSE]

\* remove_session with a plain unlink(): a missing file is an error.
remove_session_strict(c, url, user, env, io) ==
    LET key == _get_session_key(url, user, env) IN
    IF c[key] = <<>> \/ io = "unlink"
    THEN [raised |-> "OSError", cache |-> c, io_error |-> TRUE]
    ELSE [raised |-> "none", cache |-> [c EXCEPT ![key] = <<>>],
          io_error |-> FALSE]

\* SessionManager.remove_session: unlink(missing_ok=True); an I/O error of
\* unlink propagates.
remove_session(c, url, user, env, io) ==
    LET key == _get_session_key(url, user, env) IN
    IF c[key] # <<>> /\ io = "unlink"
    THEN [raised |-> "OSError", cache |-> c, io_error |-> TRUE]
    ELSE [raised |-> "none", cache |-> [c EXCEPT ![key] = <<>>],
          io_error |-> FALSE]

\* The methods SessionManager defines (session.py:64-206).  HacClient calls
\* session_manager.touch_session (client.py:397), which is not among them:
\* the attribute lookup raises AttributeError.
SessionManagerMethods ==
    {"_get_session_key", "_get_session_file", "load_session", "save_session",
     "remove_session", "list_sessions", "clear_all_sessions"}

(* --------------------------------------------------- client.py, helpers *)

SessionInfo(session_id, csrf_token, route_cookie, is_authenticated) ==
    [session_id |-> session_id, csrf_token |-> csrf_token,
     route_cookie |-> route_cookie, is_authenticated |-> is_authenticated]

EmptyJar == [JSESSIONID |-> None, ROUTE |-> None]

\* requests.Session keeps the cookies of every response it receives.
StoreCookies(jar, r) ==
    IF r.exc # "none" THEN jar
    ELSE [JSESSIONID |-> IF r.set_sid # None THEN r.set_sid ELSE jar.JSESSIONID,
          ROUTE |-> IF r.set_route # None THEN r.set_route ELSE jar.ROUTE]

\* One HTTP request as sent: the statement that sends it ("probe",
\* "login_page", "login_check", "update_page", "pending_patches" or
\* "operation"), the endpoint, the values of the JSESSIONID and ROUTE cookies
\* it carries, the CSRF token it carries (header X-CSRF-TOKEN, or form field
\* _csrf of the login check), its timeout, and what the call saw raised for
\* it: "none", the RequestException, or "HTTPError" where the code calls
\* raise_for_status.
Request(kind, endpoint, method, jsessionid, route, csrf, tmo, error) ==
    [kind |-> kind, endpoint |-> endpoint, method |-> method,
     jsessionid |-> jsessionid, route |-> route, csrf |-> csrf,
     timeout |-> tmo, error |-> error]

LoginKinds == {"probe", "login_page", "login_check"}
OperationKinds == {"update_page", "pending_patches", "operation"}

\* response.raise_for_status(): HTTPError for a 4xx or 5xx status.
raise_for_status(r) ==
    IF r.exc # "none" THEN r.exc
    ELSE IF r.status >= 400 /\ r.status < 600 THEN "HTTPError" ELSE "none"

\* _extract_csrf_token looking at the _csrf input only.
_extract_csrf_token_input_only(r) == r.csrf

\* HacClient._extract_csrf_token: the value of the page's _csrf input, else
\* the content of its _csrf meta tag, None without either.
_extract_csrf_token(r) ==
    IF r.csrf # None THEN r.csrf
    ELSE IF r.meta # None THEN r.meta
    ELSE None

\* HacClient._build_cookie_header: the cookies of the current session.
_build_cookie_header(si) ==
    [JSESSIONID |-> IF si # <<>> THEN si[1].session_id ELSE None,
     ROUTE |-> IF si # <<>> THEN RouteValue(si[1].route_cookie) ELSE None]

\* _validate_session without the redirect-to-login detection: the status
\* alone decides.
_validate_session_status_only(r) ==
    IF r.exc # "none" THEN FALSE ELSE r.status = 200

\* HacClient._validate_session, lines 220-229: what the probe's answer says.
_validate_session(r) ==
    IF r.exc # "none" THEN FALSE
    ELSE LET is_login_page == r.jssc \/ r.juser
         IN  r.status = 200 /\ ~is_login_page

\* An _ensure_authenticated that calls login() whatever session_info is.
_ensure_authenticated_always(si) == TRUE

\* _ensure_authenticated without the call of login().
_ensure_authenticated_never(si) == FALSE

\* HacClient._ensure_authenticated: TRUE iff it calls login().
_ensure_authenticated(si) ==
    si = <<>> \/ ~si[1].is_authenticated

\* _clear_invalid_session without the test of session_persistence.
_clear_invalid_session_always(h, persistence, si, c, url, env, io) ==
    IF si # <<>>
    THEN LET g == get_initial_credentials(h)
             rm == remove_session(c, url, g.credentials.j_username, env, io)
         IN  IF g.raised # "none"
             THEN [raised |-> g.raised, handler |-> h, session_info |-> si,
                   cache |-> c, io_error |-> FALSE]
             ELSE IF rm.raised = "OSError"
             THEN [raised |-> "none", handler |-> g.handler,
                   session_info |-> si, cache |-> rm.cache, io_error |-> TRUE]
             ELSE [raised |-> "none", handler |-> g.handler,
                   session_info |-> <<>>, cache |-> rm.cache,
                   io_error |-> FALSE]
    ELSE [raised |-> "none", handler |-> h, session_info |-> si, cache |-> c,
          io_error |-> FALSE]

\* HacClient._clear_invalid_session: the exception that escapes it, and the
\* handler, session_info and cache afterwards.
_clear_invalid_session(h, persistence, si, c, url, env, io) ==
    IF persistence /\ si # <<>>
    THEN LET g == get_initial_credentials(h)
             rm == remove_session(c, url, g.credentials.j_username, env, io)
         IN  IF g.raised # "none"
             THEN [raised |-> g.raised, handler |-> h, session_info |-> si,
                   cache |-> c, io_error |-> FALSE]
             ELSE IF rm.raised = "OSError"
             THEN [raised |-> "none", handler |-> g.handler,
                   session_info |-> si, cache |-> rm.cache, io_error |-> TRUE]
             ELSE [raised |-> "none", handler |-> g.handler,
                   session_info |-> <<>>, cache |-> rm.cache,
                   io_error |-> FALSE]
    ELSE [raised |-> "none", handler |-> h, session_info |-> si, cache |-> c,
          io_error |-> FALSE]

\* A _handle_request_error that clears the session on every error.
_handle_request_error_clearing(error, r, h, persistence, si, c, url, env, io) ==
    LET cl == _clear_invalid_session(h, persistence, si, c, url, env, io)
    IN  [cl EXCEPT !.raised =
             IF cl.raised # "none" THEN cl.raised
             ELSE IF error = "HTTPError" /\ r.status \in {401, 403, 405}
             THEN "HacAuthenticationError" ELSE "HacClientError"]

\* HacClient._handle_request_error for the error `error` of response r: the
\* exception raised, and the handler, session_info and cache afterwards.
_handle_request_error(error, r, h, persistence, si, c, url, env, io) ==
    IF error = "HTTPError" /\ r.status \in {401, 403, 405}
    THEN LET cl == _clear_invalid_session(h, persistence, si, c, url, env, io)
         IN  [cl EXCEPT !.raised = IF cl.raised # "none" THEN cl.raised
                                   ELSE "HacAuthenticationError"]
    ELSE [raised |-> "HacClientError", handler |-> h, session_info |-> si,
          cache |-> c, io_error |-> FALSE]

\* HacClient._touch_session: the exception that escapes it, and the handler
\* and cache afterwards.  RuntimeError and AttributeError are not among
\* the exceptions it catches.
_touch_session(h, persistence, si, c) ==
    IF persistence /\ si # <<>>
    THEN LET g == get_initial_credentials(h)
         IN  IF g.raised # "none"
             THEN [raised |-> g.raised, handler |-> h, cache |-> c]
             ELSE IF "touch_session" \notin SessionManagerMethods
             THEN [raised |-> "AttributeError", handler |-> g.handler,
                   cache |-> c]
             ELSE [raised |-> "none", handler |-> g.handler, cache |-> c]
    ELSE [raised |-> "none", handler |-> h, cache |-> c]

(* ------------------------------------------------ client.py, the calls *)

HandlerKinds == {"BasicAuthHandler", "AuthHandler"}

NoLocals ==
    [csrf_token |-> None, session_id |-> None, route_cookie |-> None,
     credentials |-> NoCredentials]

LoginUrl == "/hac/"
AuthUrl == "/hac/j_spring_security_check"
UpdatePageUrl == "/hac/platform/update"
PendingPatchesUrl == "/hac/platform/init/pendingPatches"

\* The endpoint of each operation's own request and its HTTP method.
Endpoint(o) ==
    CASE o = "execute_groovy" -> "/hac/console/scripting/execute"
      [] o = "execute_flexiblesearch" -> "/hac/console/flexsearch/execute"
      [] o = "import_impex" -> "/hac/console/impex/import"
      [] o = "get_update_data" -> "/hac/platform/init/data/"
      [] o = "get_pending_patches" -> PendingPatchesUrl
      [] o = "execute_update" -> "/hac/platform/init/execute"
      [] o = "get_update_log" -> "/hac/initlog/log"

Method(o) ==
    IF o \in {"execute_groovy", "execute_flexiblesearch", "import_impex",
              "execute_update"}
    THEN "POST" ELSE "GET"

OperationEndpoints == {Endpoint(o) : o \in Operations} \cup {UpdatePageUrl}
LoginEndpoints == {LoginUrl, AuthUrl}

\* The cache directory before the first client of a behaviour is built:
\* empty, or holding the entry that login() of an earlier run wrote for
\* the same server, user and environment (save_session at time 0, the
\* session and token of an accepted login check).
CacheDirs(url, user, env, lb) ==
    LET empty == [k \in CacheKeys |-> <<>>]
    IN  {empty,
         [empty EXCEPT ![_get_session_key(url, user, env)] =
              <<SessionMetadata("S2", "T2", RouteCookieString(lb), env, url,
                                user, 0, 0)>>]}

\* HacClient.__init__ with a newly built handler: no session, an empty cookie
\* jar.  The cache directory and the clock are the machine's, not the client's.
Init ==
    /\ base_url \in BaseUrls
    /\ environment \in Environments
    /\ timeout = DefaultTimeout
    /\ load_balancer \in Routes \cup {None}
    /\ \E k \in HandlerKinds, u \in Usernames : auth_handler = NewHandler(k, u)
    /\ session_persistence \in BOOLEAN
    /\ session_info = <<>>
    /\ cookies = EmptyJar
    /\ cache \in CacheDirs(base_url, auth_handler.username, environment,
                          load_balancer)
    /\ clock = 0
    /\ pc = "idle"
    /\ op = "none"
    /\ include_pending_patches = FALSE
    /\ locals = NoLocals
    /\ outcome = "none"
    /\ result = <<>>
    /\ reqs = <<>>
    /\ response = NoResponse
    /\ io_error = FALSE
    /\ had_session = FALSE
    /\ had_entry = FALSE
    /\ auto_login = FALSE
    /\ login_result = "none"
    /\ follows = "other"

\* A later client instance on the same machine (a further run of a command
\* line tool): HacClient.__init__ again with a newly built handler and the
\* same configuration, the cache directory as it was left.
NewClient ==
    /\ pc = "idle"
    /\ \E k \in HandlerKinds :
           auth_handler' = NewHandler(k, auth_handler.username)
    /\ session_info' = <<>>
    /\ cookies' = EmptyJar
    /\ op' = "none"
    /\ include_pending_patches' = FALSE
    /\ locals' = NoLocals
    /\ outcome' = "none"
    /\ result' = <<>>
    /\ reqs' = <<>>
    /\ response' = NoResponse
    /\ io_error' = FALSE
    /\ had_session' = FALSE
    /\ had_entry' = FALSE
    /\ auto_login' = FALSE
    /\ login_result' = "none"
    /\ follows' = "other"
    /\ UNCHANGED <<config, cache, clock, pc>>

\* time.time() advances between calls.
Tick ==
    /\ pc = "idle"
    /\ clock < MaxClock
    /\ clock' = clock + 1
    /\ UNCHANGED <<config, call, auth_handler, session_info, cookies, cache,
                   pc, locals, outcome, result, reqs, response, io_error,
                   login_result>>

\* What the call of o that begins now comes after: "auth_error" for a
\* login() called after an operation that raised HacAuthenticationError,
\* "relogin" for an operation called after such a login() returned, and
\* "other" in every other case.
Follows(o) ==
    IF o = "login" /\ op \in Operations /\ outcome = "HacAuthenticationError"
    THEN "auth_error"
    ELSE IF o \in Operations /\ op = "login" /\ follows = "auth_error"
            /\ outcome = "returned"
    THEN "relogin"
    ELSE "other"

\* The beginning of any public call: nothing issued, nothing received yet.
Begin(o, inc) ==
    /\ pc = "idle"
    /\ follows' = Follows(o)
    /\ op' = o
    /\ include_pending_patches' = inc
    /\ locals' = NoLocals
    /\ reqs' = <<>>
    /\ response' = NoResponse
    /\ login_result' = "none"
    /\ io_error' = FALSE
    /\ had_session' = (session_info # <<>> /\ session_info[1].is_authenticated)
    /\ had_entry' =
         (cache[_get_session_key(base_url, auth_handler.username,
                                 environment)] # <<>>)

\* The caller asks the credential provider directly.
GetInitialCredentials ==
    LET g == get_initial_credentials(auth_handler) IN
    /\ Begin("get_initial_credentials", FALSE)
    /\ auto_login' = FALSE
    /\ auth_handler' = g.handler
    /\ outcome' = IF g.raised # "none" THEN g.raised ELSE "returned"
    /\ result' = IF g.raised # "none" THEN <<>> ELSE <<g.credentials>>
    /\ UNCHANGED <<config, session_info, cookies, cache, clock, pc>>

\* An entry that sends get_update_data straight to its data request.
OperationEntry_without_page(o, inc) ==
    IF o = "execute_update" /\ inc THEN "op_pending" ELSE "op_request"

\* Where an operation's code goes after _ensure_authenticated.
OperationEntry(o, inc) ==
    IF o = "get_update_data" THEN "op_page"
    ELSE IF o = "execute_update" /\ inc THEN "op_pending"
    ELSE "op_request"

\* The caller calls login().
CallLogin ==
    /\ Begin("login", FALSE)
    /\ auto_login' = FALSE
    /\ pc' = "login_load"
    /\ outcome' = "running"
    /\ result' = <<>>
    /\ UNCHANGED <<config, auth_handler, session_info, cookies, cache, clock>>

\* The caller calls an operation; its first statement is
\* self._ensure_authenticated().
CallOperation ==
    \E o \in Operations, inc \in BOOLEAN :
        /\ inc => o = "execute_update"
        /\ Begin(o, inc)
        /\ auto_login' = _ensure_authenticated(session_info)
        /\ pc' = IF _ensure_authenticated(session_info)
                 THEN "login_load" ELSE OperationEntry(o, inc)
        /\ outcome' = "running"
        /\ result' = <<>>
        /\ UNCHANGED <<config, auth_handler, session_info, cookies, cache,
                       clock>>

\* How login() ends: the position, outcome and login_result after it raised
\* `exc`, or after it returned when exc is "none".
AfterLogin(exc) ==
    IF exc # "none"
    THEN [pc |-> "idle", outcome |-> exc, login_result |-> "raised"]
    ELSE IF op = "login"
    THEN [pc |-> "idle", outcome |-> "returned", login_result |-> "returned"]
    ELSE [pc |-> OperationEntry(op, include_pending_patches),
          outcome |-> outcome, login_result |-> "returned"]

\* login(), lines 238-250: look the cached session up and adopt it.
LoginLoad ==
    /\ pc = "login_load"
    /\ \E io \in {"none", "read"} :
        LET g == get_initial_credentials(auth_handler)
            ld == load_session(cache, base_url, g.credentials.j_username,
                               environment, io)
            loads == session_persistence /\ g.raised = "none"
            exc == IF ~session_persistence THEN "none"
                   ELSE IF g.raised # "none" THEN g.raised ELSE ld.raised
            found == loads /\ exc = "none" /\ ld.metadata # <<>>
            end == AfterLogin(exc)
        IN  /\ auth_handler' = IF loads THEN g.handler ELSE auth_handler
            /\ cache' = IF loads THEN ld.cache ELSE cache
            /\ io_error' = (loads /\ ld.io_error)
            /\ session_info' =
                 IF found
                 THEN <<SessionInfo(ld.metadata[1].session_id,
                                    ld.metadata[1].csrf_token,
                                    ld.metadata[1].route_cookie,
                                    ld.metadata[1].is_authenticated)>>
                 ELSE session_info
            /\ pc' = IF exc # "none" THEN end.pc
                     ELSE IF found THEN "login_validate" ELSE "login_get"
            /\ outcome' = IF exc # "none" THEN end.outcome ELSE outcome
            /\ login_result' = IF exc # "none" THEN end.login_result
                               ELSE login_result
            /\ UNCHANGED <<config, call, cookies, clock, locals, result, reqs,
                           response>>

\* login(), lines 251-254 with _validate_session: probe the adopted session;
\* a valid one ends login() here.
LoginValidate ==
    /\ pc = "login_validate"
    /\ \E r \in ProbeResponses :
        LET probed == session_info # <<>> /\ session_info[1].session_id # None
            header == _build_cookie_header(session_info)
            valid == probed /\ _validate_session(r)
            end == AfterLogin("none")
        IN  /\ reqs' = IF probed
                       THEN Append(reqs, Request("probe", LoginUrl, "GET",
                                header.JSESSIONID, header.ROUTE, None,
                                ProbeTimeout, r.exc))
                       ELSE reqs
            /\ response' = IF probed THEN r ELSE response
            /\ cookies' = IF probed THEN StoreCookies(cookies, r) ELSE cookies
            /\ pc' = IF valid THEN end.pc ELSE "login_evict"
            /\ outcome' = IF valid THEN end.outcome ELSE outcome
            /\ login_result' = IF valid THEN end.login_result ELSE login_result
            /\ UNCHANGED <<config, call, auth_handler, session_info, cache,
                           clock, locals, result, io_error>>

\* login(), lines 255-262: the adopted session failed validation; remove its
\* cache entry.
LoginEvict ==
    /\ pc = "login_evict"
    /\ \E io \in {"none", "unlink"} :
        LET g == get_initial_credentials(auth_handler)
            rm == remove_session(cache, base_url, g.credentials.j_username,
                                 environment, io)
            removes == session_persistence /\ g.raised = "none"
            exc == IF ~session_persistence THEN "none"
                   ELSE IF g.raised # "none" THEN g.raised ELSE rm.raised
            end == AfterLogin(exc)
        IN  /\ auth_handler' = IF removes THEN g.handler ELSE auth_handler
            /\ cache' = IF removes THEN rm.cache ELSE cache
            /\ io_error' = (io_error \/ (removes /\ rm.io_error))
            /\ pc' = IF exc # "none" THEN end.pc ELSE "login_get"
            /\ outcome' = IF exc # "none" THEN end.outcome ELSE outcome
            /\ login_result' = IF exc # "none" THEN end.login_result
                               ELSE login_result
            /\ UNCHANGED <<config, call, session_info, cookies, clock, locals,
                           result, reqs, response>>

\* login(), lines 265-285: GET the login page, take the CSRF token from it
\* and the cookies from the jar, then ask the handler for the credentials.
LoginGet ==
    /\ pc = "login_get"
    /\ \E r \in LoginPageResponses(load_balancer) :
        LET error == raise_for_status(r)
            jar == StoreCookies(cookies, r)
            csrf_token == _extract_csrf_token(r)
            g == get_initial_credentials(auth_handler)
            exc == IF error # "none" THEN "HacAuthenticationError"
                   ELSE IF csrf_token = None THEN "HacAuthenticationError"
                   ELSE g.raised
            end == AfterLogin(exc)
        IN  /\ reqs' = Append(reqs, Request("login_page", LoginUrl, "GET",
                            cookies.JSESSIONID, cookies.ROUTE, None, timeout,
                            error))
            /\ response' = r
            /\ cookies' = jar
            /\ auth_handler' = IF exc = "none" THEN g.handler ELSE auth_handler
            /\ locals' =
                 IF exc = "none"
                 THEN [csrf_token |-> csrf_token,
                       session_id |-> jar.JSESSIONID,
                       route_cookie |-> RouteCookieString(jar.ROUTE),
                       credentials |-> g.credentials]
                 ELSE locals
            /\ pc' = IF exc # "none" THEN end.pc ELSE "login_post"
            /\ outcome' = IF exc # "none" THEN end.outcome ELSE outcome
            /\ login_result' = IF exc # "none" THEN end.login_result
                               ELSE login_result
            /\ UNCHANGED <<config, call, session_info, cache, clock, result,
                           io_error>>

\* The checks of the login check's answer without the test for the login
\* form in the body.
login_rejected_status_only(r, session_id, csrf_token) ==
    \/ r.status # 200
    \/ session_id = None \/ csrf_token = None

\* The checks of the login check's answer without the test that a session
\* id and a CSRF token are available.
login_rejected_unchecked_session(r, session_id, csrf_token) ==
    r.status # 200 \/ r.jssc

\* login(), lines 302-325: whether the login check's answer r makes login()
\* raise HacAuthenticationError, given the session id and CSRF token that
\* are available after it.
login_rejected(r, session_id, csrf_token) ==
    \/ r.status # 200 \/ r.jssc
    \/ session_id = None \/ csrf_token = None

\* login(), lines 287-347: POST the credentials, check the answer, store the
\* session and save it to the cache.
LoginPost ==
    /\ pc = "login_post"
    /\ \E r \in LoginCheckResponses(load_balancer),
          io \in {"none", "read", "write"} :
        LET jar == StoreCookies(cookies, r)
            session_id == IF jar.JSESSIONID # None THEN jar.JSESSIONID
                          ELSE locals.session_id
            route_cookie == IF jar.ROUTE # None THEN RouteCookieString(jar.ROUTE)
                            ELSE locals.route_cookie
            new_csrf_token == _extract_csrf_token(r)
            csrf_token == IF new_csrf_token # None THEN new_csrf_token
                          ELSE locals.csrf_token
            rejected ==
                r.exc # "none" \/ login_rejected(r, session_id, csrf_token)
            sv == save_session(cache, base_url, locals.credentials.j_username,
                               environment, session_id, csrf_token,
                               route_cookie, clock, io)
            saves == ~rejected /\ session_persistence
            exc == IF rejected THEN "HacAuthenticationError"
                   ELSE IF saves THEN sv.raised ELSE "none"
            end == AfterLogin(exc)
        IN  /\ reqs' = Append(reqs, Request("login_check", AuthUrl, "POST",
                            IF locals.session_id # None THEN locals.session_id
                            ELSE cookies.JSESSIONID,
                            IF locals.route_cookie # None
                            THEN locals.route_cookie ELSE cookies.ROUTE,
                            locals.csrf_token, timeout, r.exc))
            /\ response' = r
            /\ cookies' = jar
            /\ session_info' =
                 IF rejected THEN session_info
                 ELSE <<SessionInfo(session_id, csrf_token, route_cookie, TRUE)>>
            /\ cache' = IF saves THEN sv.cache ELSE cache
            /\ io_error' = (io_error \/ (saves /\ sv.io_error))
            /\ pc' = end.pc
            /\ outcome' = end.outcome
            /\ login_result' = end.login_result
            /\ UNCHANGED <<config, call, auth_handler, clock, locals, result>>

(* ------------------------------------------- client.py, the operations *)

ResultType(o) ==
    CASE o = "execute_groovy" -> "GroovyScriptResult"
      [] o = "execute_flexiblesearch" -> "FlexibleSearchResult"
      [] o = "import_impex" -> "ImpexResult"
      [] o = "get_update_data" -> "UpdateData"
      [] o = "get_pending_patches" -> "dict"
      [] o = "execute_update" -> "UpdateResult"
      [] o = "get_update_log" -> "UpdateLog"

\* Answers to the GET of the update page; its status is never looked at.
UpdatePageResponses ==
    {Failure("Timeout")}
    \cup {Resp("none", st, FALSE, FALSE, None, None, None, "html") :
             st \in {200, 401}}

\* A request without the CSRF header.
CsrfHeader_missing(si) == None

\* The X-CSRF-TOKEN header of an operation's request (execute_groovy line
\* 436 and the same line of the other operations).
CsrfHeader(si) == si.csrf_token

\* execute_groovy, lines 441-448: put the session's cookies into the jar
\* when the jar does not show the session id.  The other operations send
\* the jar as it is.
OperationJar(o, si, jar) ==
    IF o = "execute_groovy" /\ si.session_id # jar.JSESSIONID
    THEN [JSESSIONID |-> si.session_id,
          ROUTE |-> IF si.route_cookie # None
                    THEN RouteValue(si.route_cookie) ELSE jar.ROUTE]
    ELSE jar

\* What reading the 2xx response raises: response.json() on a body that is
\* not JSON (a ValueError, turned into HacClientError), and .get() on JSON
\* that is not an object.
ParseError(o, r) ==
    IF o = "import_impex" THEN "none"
    ELSE IF r.body = "not_json" THEN "HacClientError"
    ELSE "none"

MapError(o, r) ==
    IF o \notin {"import_impex", "get_pending_patches"} /\ r.body = "json_other"
    THEN "AttributeError" ELSE "none"

\* An except clause that sends the request again.
OnRequestException_retry(o) == "op_request"

\* The except clauses of the operations (execute_groovy lines 471-474):
\* where the call goes once its request has raised.  _handle_request_error
\* never returns, so the call ends.
OnRequestException(o) == "idle"

\* get_update_data, lines 617-624: GET the update page first.
OpPage ==
    /\ pc = "op_page"
    /\ \E r \in UpdatePageResponses :
        LET absent == session_info = <<>>
            he == _handle_request_error(r.exc, r, auth_handler,
                      session_persistence, session_info, cache, base_url,
                      environment, "none")
            failed == ~absent /\ r.exc # "none"
            exc == IF absent THEN "AttributeError"
                   ELSE IF failed THEN he.raised ELSE "none"
            next == IF failed THEN OnRequestException(op)
                    ELSE IF exc # "none" THEN "idle" ELSE "op_request"
        IN  /\ reqs' = IF absent THEN reqs
                       ELSE Append(reqs, Request("update_page", UpdatePageUrl,
                                "GET", cookies.JSESSIONID, cookies.ROUTE,
                                CsrfHeader(session_info[1]), timeout, r.exc))
            /\ response' = IF absent THEN response ELSE r
            /\ pc' = next
            /\ outcome' = IF next = "idle" /\ exc # "none" THEN exc ELSE outcome
            /\ UNCHANGED <<config, call, auth_handler, session_info, cookies,
                           cache, clock, locals, result, io_error,
                           login_result>>

\* execute_update, lines 721-733, with get_pending_patches, lines 790-813:
\* fetch the pending patches before the update is posted.  The session is
\* authenticated here, so the nested _ensure_authenticated does nothing.
\* What get_pending_patches raises is a HacClientError, which the except
\* clause of line 731 does not name.
OpPending ==
    /\ pc = "op_pending"
    /\ \E r \in OperationResponses, io \in {"none", "unlink"} :
        LET absent == session_info = <<>>
            error == raise_for_status(r)
            he == _handle_request_error(error, r, auth_handler,
                      session_persistence, session_info, cache, base_url,
                      environment, io)
            failed == ~absent /\ error # "none"
            exc == IF absent THEN "AttributeError"
                   ELSE IF failed THEN he.raised
                   ELSE IF r.body = "not_json" THEN "HacClientError"
                   ELSE IF r.body = "json_other" THEN "AttributeError"
                   ELSE "none"
            next == IF failed THEN OnRequestException(op)
                    ELSE IF exc # "none" THEN "idle" ELSE "op_request"
        IN  /\ reqs' = IF absent THEN reqs
                       ELSE Append(reqs, Request("pending_patches",
                                PendingPatchesUrl, "GET", cookies.JSESSIONID,
                                cookies.ROUTE, CsrfHeader(session_info[1]),
                                timeout, error))
            /\ response' = IF absent THEN response ELSE r
            /\ auth_handler' = IF failed THEN he.handler ELSE auth_handler
            /\ session_info' = IF failed THEN he.session_info ELSE session_info
            /\ cache' = IF failed THEN he.cache ELSE cache
            /\ io_error' = (io_error \/ (failed /\ he.io_error))
            /\ pc' = next
            /\ outcome' = IF next = "idle" /\ exc # "none" THEN exc ELSE outcome
            /\ UNCHANGED <<config, call, cookies, clock, locals, result,
                           login_result>>

\* The operation's own request, the reading of its answer and the touch of
\* the session (execute_groovy lines 425-474 and the same lines of the other
\* six operations).
OpRequest ==
    /\ pc = "op_request"
    /\ \E r \in OperationResponses, io \in {"none", "unlink"} :
        LET absent == session_info = <<>>
            jar == OperationJar(op, session_info[1], cookies)
            error == raise_for_status(r)
            he == _handle_request_error(error, r, auth_handler,
                      session_persistence, session_info, cache, base_url,
                      environment, io)
            th == _touch_session(auth_handler, session_persistence,
                                 session_info, cache)
            touches == op # "get_pending_patches"
            failed == ~absent /\ error # "none"
            early == IF failed THEN he.raised
                     ELSE IF ParseError(op, r) # "none" THEN ParseError(op, r)
                     ELSE IF op = "get_update_data" THEN MapError(op, r)
                     ELSE "none"
            touched == ~absent /\ early = "none" /\ touches
            exc == IF absent THEN "AttributeError"
                   ELSE IF early # "none" THEN early
                   ELSE IF touches /\ th.raised # "none" THEN th.raised
                   ELSE MapError(op, r)
            next == IF failed THEN OnRequestException(op) ELSE "idle"
        IN  /\ reqs' = IF absent THEN reqs
                       ELSE Append(reqs, Request("operation", Endpoint(op),
                                Method(op), jar.JSESSIONID, jar.ROUTE,
                                CsrfHeader(session_info[1]), timeout, error))
            /\ response' = IF absent THEN response ELSE r
            /\ cookies' = IF absent THEN cookies ELSE jar
            /\ auth_handler' = IF failed THEN he.handler
                               ELSE IF touched THEN th.handler
                               ELSE auth_handler
            /\ session_info' = IF failed THEN he.session_info ELSE session_info
            /\ cache' = IF failed THEN he.cache
                        ELSE IF touched THEN th.cache ELSE cache
            /\ io_error' = (io_error \/ (failed /\ he.io_error))
            /\ pc' = next
            /\ outcome' = IF next # "idle" THEN outcome
                          ELSE IF exc # "none" THEN exc ELSE "returned"
            /\ result' = IF next = "idle" /\ exc = "none"
                         THEN <<[type |-> ResultType(op)]>> ELSE <<>>
            /\ UNCHANGED <<config, call, clock, locals, login_result>>

Next ==
    \/ NewClient
    \/ Tick
    \/ GetInitialCredentials
    \/ CallLogin
    \/ CallOperation
    \/ LoginLoad
    \/ LoginValidate
    \/ LoginEvict
    \/ LoginGet
    \/ LoginPost
    \/ OpPage
    \/ OpPending
    \/ OpRequest

Spec == Init /\ [][Next]_vars

(* ------------------------------------- session.py, used on its own *)

\* The (base_url, username, environment) triples a caller of SessionManager
\* passes.  The components are strings, written as sequences of characters;
\* "h", "u" and "e" stand for the parts without a colon.
Triples ==
    { << <<"h">>, <<"u">>, <<"e">> >>,
      << <<"h">>, <<"u">>, <<"e", ":", "e">> >>,
      << <<"h">>, <<"u", ":", "e">>, <<"e">> >> }

TripleKey(t) == _get_session_key(t[1], t[2], t[3])
TripleKeys == {TripleKey(t) : t \in Triples}

\* The session values a caller passes to save_session: session_id,
\* csrf_token and route_cookie of a session without and of one with a route.
SavedSessions ==
    { <<"S1", "T1", None>>, <<"S2", "T2", RouteCookieString("R1")>> }

\* The arguments of a SessionManager call, as the call's locals.
Arguments(t, session_id, csrf_token, route_cookie) ==
    [triple |-> t, session_id |-> session_id, csrf_token |-> csrf_token,
     route_cookie |-> route_cookie]

\* Contents of a cache file that load_session cannot turn into a
\* SessionMetadata: not decodable, not JSON, JSON that is not an object, an
\* object with a field missing, an object with an unknown field.
CorruptContents ==
    { [text |-> "not_text"], [text |-> "not_json"], [text |-> "not_object"],
      [session_id |-> "S1", csrf_token |-> "T1"],
      SessionMetadata("S1", "T1", None, <<"e">>, <<"h">>, <<"u">>, 0, 0)
          @@ [owner |-> "x"] }

\* SessionManager(cache_dir) on an empty cache directory; no client call is
\* made in this specification.
CacheInit ==
    /\ base_url = <<"h">>
    /\ environment = <<"e">>
    /\ timeout = DefaultTimeout
    /\ load_balancer = None
    /\ auth_handler = NewHandler("BasicAuthHandler", <<"u">>)
    /\ session_persistence = TRUE
    /\ session_info = <<>>
    /\ cookies = EmptyJar
    /\ cache = [k \in TripleKeys |-> <<>>]
    /\ clock = 0
    /\ pc = "idle"
    /\ op = "none"
    /\ include_pending_patches = FALSE
    /\ locals = NoLocals
    /\ outcome = "none"
    /\ result = <<>>
    /\ reqs = <<>>
    /\ response = NoResponse
    /\ io_error = FALSE
    /\ had_session = FALSE
    /\ had_entry = FALSE
    /\ auto_login = FALSE
    /\ login_result = "none"
    /\ follows = "other"

\* What no SessionManager call touches.
client ==
    <<config, auth_handler, session_info, cookies, clock, pc,
      include_pending_patches, reqs, response, had_session, auto_login,
      login_result, follows>>

\* session_manager.save_session(base_url, username, environment, session_id,
\* csrf_token, route_cookie)
SaveSession ==
    \E t \in Triples, v \in SavedSessions, io \in IOFaults :
        LET sv == save_session(cache, t[1], t[2], t[3], v[1], v[2], v[3],
                               clock, io)
        IN  /\ op' = "save_session"
            /\ locals' = Arguments(t, v[1], v[2], v[3])
            /\ had_entry' = (cache[TripleKey(t)] # <<>>)
            /\ cache' = sv.cache
            /\ io_error' = sv.io_error
            /\ outcome' = IF sv.raised # "none" THEN sv.raised ELSE "returned"
            /\ result' = <<>>
            /\ UNCHANGED client

\* session_manager.load_session(base_url, username, environment)
LoadSession ==
    \E t \in Triples, io \in {"none", "read", "unlink"} :
        LET ld == load_session(cache, t[1], t[2], t[3], io)
        IN  /\ op' = "load_session"
            /\ locals' = Arguments(t, None, None, None)
            /\ had_entry' = (cache[TripleKey(t)] # <<>>)
            /\ cache' = ld.cache
            /\ io_error' = ld.io_error
            /\ outcome' = IF ld.raised # "none" THEN ld.raised ELSE "returned"
            /\ result' = ld.metadata
            /\ UNCHANGED client

\* session_manager.remove_session(base_url, username, environment)
RemoveSession ==
    \E t \in Triples, io \in {"none", "unlink"} :
        LET rm == remove_session(cache, t[1], t[2], t[3], io)
        IN  /\ op' = "remove_session"
            /\ locals' = Arguments(t, None, None, None)
            /\ had_entry' = (cache[TripleKey(t)] # <<>>)
            /\ cache' = rm.cache
            /\ io_error' = rm.io_error
            /\ outcome' = IF rm.raised # "none" THEN rm.raised ELSE "returned"
            /\ result' = <<>>
            /\ UNCHANGED client

\* Something other than SessionManager leaves a damaged file under a cache
\* file's name (an interrupted write, a file of another format).
CorruptFile ==
    \E k \in TripleKeys, content \in CorruptContents :
        /\ cache' = [cache EXCEPT ![k] = <<content>>]
        /\ op' = "none"
        /\ locals' = NoLocals
        /\ had_entry' = (cache[k] # <<>>)
        /\ io_error' = FALSE
        /\ outcome' = "none"
        /\ result' = <<>>
        /\ UNCHANGED client

CacheNext ==
    \/ SaveSession
    \/ LoadSession
    \/ RemoveSession
    \/ CorruptFile
    \/ Tick

CacheSpec == CacheInit /\ [][CacheNext]_vars

(* ------------------- models.py and the result mappings, on their own *)

\* A str is the sequence of its characters; an Optional[str] is <<>> for
\* None (and for JSON null) or <<s>>.
MaxFragments == 3
MaxExtensions == 3

Whitespace == {" ", "\n"}

\* str.lower(), on the characters that occur.
LowerChar(ch) ==
    CASE ch = "E" -> "e" [] ch = "R" -> "r" [] ch = "O" -> "o"
      [] ch = "P" -> "p" [] OTHER -> ch

\* A lower() that leaves the string as it is.
lower_unchanged(s) == s

lower(s) == [i \in DOMAIN s |-> LowerChar(s[i])]

\* str.strip().
RECURSIVE lstrip(_)
lstrip(s) ==
    IF s # <<>> /\ Head(s) \in Whitespace THEN lstrip(Tail(s)) ELSE s

RECURSIVE rstrip(_)
rstrip(s) ==
    IF s # <<>> /\ s[Len(s)] \in Whitespace
    THEN rstrip(SubSeq(s, 1, Len(s) - 1)) ELSE s

strip(s) == rstrip(lstrip(s))

\* Python's `sub in s` and s.endswith(suffix).
contains(s, sub) ==
    \E i \in 0..(Len(s) - Len(sub)) : SubSeq(s, i + 1, i + Len(sub)) = sub

endswith(s, suffix) ==
    /\ Len(s) >= Len(suffix)
    /\ SubSeq(s, Len(s) - Len(suffix) + 1, Len(s)) = suffix

\* dict.get(key, default) on a JSON object.
get(data, key, default) == IF key \in DOMAIN data THEN data[key] ELSE default

\* Pieces of text a server puts into a stack trace or an import result, and
\* the texts made of at most n of them.
Fragments ==
    { <<" ">>, <<"\n">>, <<"o", "k">>, <<"e", "r", "r">>, <<"o", "r">>,
      <<"E", "R", "R">> }

RECURSIVE Texts(_)
Texts(n) ==
    IF n = 0 THEN {<<>>}
    ELSE LET shorter == Texts(n - 1)
         IN  shorter \cup {t \o f : t \in shorter, f \in Fragments}

\* models.py, GroovyScriptResult.
GroovyScriptResult(output_text, execution_result, stacktrace_text, commit_mode, execution_time_ms) ==
    [output_text |-> output_text, execution_result |-> execution_result,
     stacktrace_text |-> stacktrace_text, commit_mode |-> commit_mode,
     execution_time_ms |-> execution_time_ms]

\* A success property that does not strip the stack trace.
success_unstripped(r) ==
    r.stacktrace_text = <<>> \/ Len(r.stacktrace_text[1]) = 0

\* GroovyScriptResult.success.
success(r) ==
    r.stacktrace_text = <<>> \/ Len(strip(r.stacktrace_text[1])) = 0

\* execute_groovy, lines 463-469: the result built from the JSON object.
GroovyResultOf(data, commit) ==
    GroovyScriptResult(get(data, "outputText", <<>>),
                       get(data, "executionResult", <<>>),
                       get(data, "stacktraceText", <<>>),
                       commit,
                       get(data, "executionTime", <<>>))

\* JSON objects the scripting endpoint answers with: with or without the
\* output fields and the execution time, and without a stacktraceText, with
\* null, or with a text.
GroovyResponses ==
    LET base == { [executionResult |-> <<"o", "k">>],
                  [outputText |-> <<"o", "k">>,
                   executionResult |-> <<"o", "k">>,
                   executionTime |-> <<5>>] }
        traces == {<<>>} \cup {<<t>> : t \in Texts(MaxFragments)}
    IN  base \cup {b @@ [stacktraceText |-> s] : b \in base, s \in traces}

\* models.py, ImpexResult.
ImpexResult(succeeded, output, error) ==
    [success |-> succeeded, output |-> output, error |-> error]

\* result_div.get_text(strip=True) for a container with the one text node
\* `text`.
get_text(text) == strip(text)

\* import_impex, lines 583-601: the result built from the response, whose
\* status raise_for_status() has let pass.  text is response.text and
\* result_div the text of the first div of class impex-result, <<>>
\* without one.
ImpexResultOf(r) ==
    LET found == r.result_div # <<>>
        output == IF found THEN get_text(r.result_div[1]) ELSE r.text
        succeeded ==
            IF found
            THEN ~contains(lower(output), <<"e", "r", "r", "o", "r">>)
            ELSE r.status = 200
    IN  ImpexResult(succeeded, output, IF succeeded THEN <<>> ELSE <<output>>)

\* Answers of the import endpoint with a 2xx status.
ImpexResponses ==
    { [status |-> st, text |-> raw, result_div |-> d] :
        st \in {200, 201},
        raw \in Texts(1),
        d \in {<<>>} \cup {<<t>> : t \in Texts(MaxFragments)} }

\* models.py, ProjectData and its has_parameters.
ProjectData(name, parameters) == [name |-> name, parameters |-> parameters]

\* A has_parameters that never sees a parameter.
has_parameters_never(pd) == FALSE

has_parameters(pd) == Len(pd.parameters) > 0

\* The word 'patches'.
patches == <<"p", "a", "t", "c", "h", "e", "s">>

\* UpdateData.get_patches_extension: <<>> for None, else <<extension>>.
get_patches_extension(project_datas) ==
    LET is_candidate(pd) == contains(lower(pd.name), patches)
        candidates == SelectSeq(project_datas, is_candidate)
        with_params == SelectSeq(candidates, has_parameters)
        named(pd) == lower(pd.name) # patches
        suffixed(pd) ==
            endswith(lower(pd.name), patches) /\ lower(pd.name) # patches
    IN  IF candidates = <<>> THEN <<>>
        ELSE IF with_params # <<>>
        THEN IF SelectSeq(with_params, named) # <<>>
             THEN <<SelectSeq(with_params, named)[1]>>
             ELSE <<with_params[1]>>
        ELSE IF SelectSeq(candidates, suffixed) # <<>>
        THEN <<SelectSeq(candidates, suffixed)[1]>>
        ELSE <<candidates[1]>>

\* Extension names: the word itself, with a prefix, capitalised, with a
\* suffix, and a name without the word.
ExtensionNames ==
    { patches,
      <<"a", "c", "m", "e">> \o patches,
      <<"P">> \o Tail(patches),
      patches \o <<"x">>,
      <<"c", "o", "r", "e">> }

Extensions ==
    { ProjectData(n, ps) : n \in ExtensionNames, ps \in {<<>>, <<"p1">>} }

RECURSIVE ExtensionLists(_)
ExtensionLists(n) ==
    IF n = 0 THEN {<<>>}
    ELSE LET shorter == ExtensionLists(n - 1)
         IN  shorter \cup {Append(l, x) : l \in shorter, x \in Extensions}

\* The inputs of the three mappings, as the locals of the call that applies
\* one: a JSON object and the commit flag, an import response, the
\* project_datas of an UpdateData.
ResultInputs ==
    {[data |-> d, commit |-> c] : d \in GroovyResponses, c \in BOOLEAN}
    \cup {[response |-> r] : r \in ImpexResponses}
    \cup {[project_datas |-> l] : l \in ExtensionLists(MaxExtensions)}

\* One input, not yet mapped.  No client and no cache take part in this
\* specification.
ResultInit ==
    /\ base_url = <<"h">>
    /\ environment = <<"e">>
    /\ timeout = DefaultTimeout
    /\ load_balancer = None
    /\ auth_handler = NewHandler("BasicAuthHandler", <<"u">>)
    /\ session_persistence = FALSE
    /\ session_info = <<>>
    /\ cookies = EmptyJar
    /\ cache = [k \in CacheKeys |-> <<>>]
    /\ clock = 0
    /\ pc = "idle"
    /\ op = "none"
    /\ include_pending_patches = FALSE
    /\ locals \in ResultInputs
    /\ outcome = "none"
    /\ result = <<>>
    /\ reqs = <<>>
    /\ response = NoResponse
    /\ io_error = FALSE
    /\ had_session = FALSE
    /\ had_entry = FALSE
    /\ auto_login = FALSE
    /\ login_result = "none"
    /\ follows = "other"

\* execute_groovy builds its result from the response, and the caller reads
\* the result's success.
BuildGroovyResult ==
    /\ op = "none" /\ "data" \in DOMAIN locals
    /\ op' = "GroovyScriptResult"
    /\ result' = <<GroovyResultOf(locals.data, locals.commit)>>
    /\ outcome' = "returned"
    /\ UNCHANGED <<client, cache, locals, had_entry, io_error>>

\* import_impex builds its result from the response.
BuildImpexResult ==
    /\ op = "none" /\ "response" \in DOMAIN locals
    /\ op' = "ImpexResult"
    /\ result' = <<ImpexResultOf(locals.response)>>
    /\ outcome' = "returned"
    /\ UNCHANGED <<client, cache, locals, had_entry, io_error>>

\* The caller asks an UpdateData for its patches extension.
GetPatchesExtension ==
    /\ op = "none" /\ "project_datas" \in DOMAIN locals
    /\ op' = "get_patches_extension"
    /\ result' = get_patches_extension(locals.project_datas)
    /\ outcome' = "returned"
    /\ UNCHANGED <<client, cache, locals, had_entry, io_error>>

ResultNext ==
    \/ BuildGroovyResult
    \/ BuildImpexResult
    \/ GetPatchesExtension

ResultSpec == ResultInit /\ [][ResultNext]_vars

(* ------------------------- client.py, one client used by two callers *)

\* Two threads that call execute_groovy on the same HacClient.  In this
\* specification pc, op, outcome and locals hold one value per caller; the
\* client's fields, the cookie jar and the cache directory are shared.
Callers == {1, 2}

\* The client after a login() that returned: an authenticated session, the
\* handler asked once for its credentials and, with caching enabled, the
\* entry that the login saved.  No call is running.
ConcurrentInit ==
    /\ base_url = <<"h">>
    /\ environment = <<"e">>
    /\ timeout = DefaultTimeout
    /\ load_balancer = None
    /\ \E k \in HandlerKinds :
           auth_handler =
               get_initial_credentials(NewHandler(k, <<"u">>)).handler
    /\ session_persistence \in BOOLEAN
    /\ session_info = <<SessionInfo("S2", "T2", None, TRUE)>>
    /\ cookies = [JSESSIONID |-> "S2", ROUTE |-> None]
    /\ cache = IF session_persistence
               THEN save_session([k \in CacheKeys |-> <<>>], base_url,
                                 <<"u">>, environment, "S2", "T2", None, 0,
                                 "none").cache
               ELSE [k \in CacheKeys |-> <<>>]
    /\ clock = 0
    /\ pc = [t \in Callers |-> "idle"]
    /\ op = [t \in Callers |-> "none"]
    /\ include_pending_patches = FALSE
    /\ locals = [t \in Callers |-> NoLocals]
    /\ outcome = [t \in Callers |-> "none"]
    /\ result = <<>>
    /\ reqs = <<>>
    /\ response = NoResponse
    /\ io_error = FALSE
    /\ had_session = FALSE
    /\ had_entry = FALSE
    /\ auto_login = FALSE
    /\ login_result = "none"
    /\ follows = "other"

\* What no step of a caller changes.
shared_frame ==
    <<config, clock, include_pending_patches, result, reqs, response,
      io_error, had_session, had_entry, auto_login, login_result, follows>>

\* execute_groovy, line 423: caller t enters and runs the test of
\* _ensure_authenticated.
CallerEnsures(t) ==
    /\ pc[t] = "idle"
    /\ op' = [op EXCEPT ![t] = "execute_groovy"]
    /\ outcome' = [outcome EXCEPT ![t] = "running"]
    /\ locals' = [locals EXCEPT ![t] = NoLocals]
    /\ pc' = [pc EXCEPT ![t] = IF _ensure_authenticated(session_info)
                                THEN "login" ELSE "op_build"]
    /\ UNCHANGED <<shared_frame, auth_handler, session_info, cookies, cache>>

\* login() run by caller t from _ensure_authenticated, as one step: the
\* cache lookup, the adoption and validation of a cached session, the
\* eviction, and the fresh login, which the server accepts or not.
CallerLogsIn(t) ==
    /\ pc[t] = "login"
    /\ \E valid, accepted \in BOOLEAN :
        LET g == get_initial_credentials(auth_handler)
            ld == load_session(cache, base_url, g.credentials.j_username,
                               environment, "none")
            found == session_persistence /\ g.raised = "none"
                     /\ ld.metadata # <<>>
            adopted == <<SessionInfo(ld.metadata[1].session_id,
                                     ld.metadata[1].csrf_token,
                                     ld.metadata[1].route_cookie,
                                     ld.metadata[1].is_authenticated)>>
            rm == remove_session(cache, base_url, g.credentials.j_username,
                                 environment, "none")
            sv == save_session(IF found THEN rm.cache ELSE cache, base_url,
                               g.credentials.j_username, environment, "S1",
                               "T1", None, clock, "none")
            exc == IF g.raised # "none" THEN g.raised
                   ELSE IF found /\ valid THEN "none"
                   ELSE IF accepted THEN "none"
                   ELSE "HacAuthenticationError"
        IN  /\ auth_handler' =
                 IF g.raised = "none" THEN g.handler ELSE auth_handler
            /\ session_info' =
                 IF g.raised # "none" THEN session_info
                 ELSE IF found /\ valid THEN adopted
                 ELSE IF accepted THEN <<SessionInfo("S1", "T1", None, TRUE)>>
                 ELSE IF found THEN adopted
                 ELSE session_info
            /\ cookies' =
                 IF g.raised = "none" /\ ~(found /\ valid) /\ accepted
                 THEN [JSESSIONID |-> "S1", ROUTE |-> None] ELSE cookies
            /\ cache' =
                 IF g.raised # "none" \/ ~session_persistence THEN cache
                 ELSE IF found /\ valid THEN cache
                 ELSE IF accepted THEN sv.cache
                 ELSE IF found THEN rm.cache
                 ELSE cache
            /\ pc' = [pc EXCEPT ![t] = IF exc = "none" THEN "op_build"
                                        ELSE "idle"]
            /\ outcome' = [outcome EXCEPT ![t] = IF exc = "none" THEN @
                                                  ELSE exc]
            /\ UNCHANGED <<shared_frame, op, locals>>

\* execute_groovy, lines 434-448: caller t builds its headers from
\* self.session_info and puts the session's cookies into the jar.  Reading
\* csrf_token of None raises AttributeError, which no except clause names.
CallerBuilds(t) ==
    /\ pc[t] = "op_build"
    /\ IF session_info = <<>>
       THEN /\ pc' = [pc EXCEPT ![t] = "idle"]
            /\ outcome' = [outcome EXCEPT ![t] = "AttributeError"]
            /\ locals' = [locals EXCEPT ![t].session_id = "absent"]
            /\ UNCHANGED cookies
       ELSE /\ pc' = [pc EXCEPT ![t] = "op_request"]
            /\ locals' = [locals EXCEPT
                            ![t].csrf_token = CsrfHeader(session_info[1]),
                            ![t].session_id = session_info[1].session_id]
            /\ cookies' =
                 OperationJar("execute_groovy", session_info[1], cookies)
            /\ UNCHANGED outcome
    /\ UNCHANGED <<shared_frame, op, auth_handler, session_info, cache>>

\* execute_groovy, lines 450-474: the answer to caller t's POST arrives and
\* is handled.
CallerIsAnswered(t) ==
    /\ pc[t] = "op_request"
    /\ \E r \in OperationResponses :
        LET error == raise_for_status(r)
            he == _handle_request_error(error, r, auth_handler,
                      session_persistence, session_info, cache, base_url,
                      environment, "none")
            th == _touch_session(auth_handler, session_persistence,
                                 session_info, cache)
            failed == error # "none"
            parsed == ~failed /\ ParseError("execute_groovy", r) = "none"
            exc == IF failed THEN he.raised
                   ELSE IF ~parsed THEN ParseError("execute_groovy", r)
                   ELSE IF th.raised # "none" THEN th.raised
                   ELSE MapError("execute_groovy", r)
        IN  /\ auth_handler' = IF failed THEN he.handler
                               ELSE IF parsed THEN th.handler
                               ELSE auth_handler
            /\ session_info' = IF failed THEN he.session_info
                               ELSE session_info
            /\ cache' = IF failed THEN he.cache
                        ELSE IF parsed THEN th.cache ELSE cache
            /\ pc' = [pc EXCEPT ![t] = "idle"]
            /\ outcome' = [outcome EXCEPT ![t] = IF exc # "none" THEN exc
                                                  ELSE "returned"]
            /\ UNCHANGED <<shared_frame, op, locals, cookies>>

ConcurrentNext ==
    \E t \in Callers :
        \/ CallerEnsures(t)
        \/ CallerLogsIn(t)
        \/ CallerBuilds(t)
        \/ CallerIsAnswered(t)

ConcurrentSpec == ConcurrentInit /\ [][ConcurrentNext]_vars

(* ------------- client.py, execute_update and its pending patches payload *)

\* The longest list of patches of one category.
MaxPatches == 2

CategoryNames == <<"c1", "c2">>

\* One entry of a category's list in the pending-patches JSON: its 'hash'
\* and 'required' members, each <<>> when the entry does not have it.
Patches ==
    {[hash |-> <<h>>, required |-> <<q>>] : h \in {"h1", "h2"}, q \in BOOLEAN}
    \cup {[hash |-> <<"h1">>, required |-> <<>>],
          [hash |-> <<>>, required |-> <<TRUE>>]}

PatchLists(n) == UNION {[1..k -> Patches] : k \in 0..n}

\* The JSON objects get_pending_patches returns, as the sequence of their
\* items: no category, one category, or the two.
PendingDicts ==
    {<<>>}
    \cup {<<[category |-> c, patch_list |-> l]>> :
             c \in {CategoryNames[1], CategoryNames[2]},
             l \in PatchLists(MaxPatches)}
    \cup {<<[category |-> CategoryNames[1], patch_list |-> l1],
            [category |-> CategoryNames[2], patch_list |-> l2]>> :
             l1, l2 \in PatchLists(MaxPatches)}

\* A test that takes every patch as required.
required_always(p) == TRUE

\* execute_update, line 727: p.get('required', False).
required(p) == p.required = <<TRUE>>

has_hash(p) == p.hash # <<>>

\* execute_update, line 727: [p['hash'] for p in patch_list if
\* p.get('required', False)]; p['hash'] of a required patch without that
\* member raises KeyError.
hashes(patch_list) ==
    LET marked == SelectSeq(patch_list, required)
    IN  IF SelectSeq(marked, has_hash) # marked
        THEN [raised |-> "KeyError", hashes |-> <<>>]
        ELSE [raised |-> "none",
              hashes |-> [i \in 1..Len(marked) |-> marked[i].hash[1]]]

\* execute_update, lines 722-732: the loop over pending.items(), from item
\* i on, with the payload built so far.  A KeyError ends the loop, is
\* caught, and leaves the payload as far as it was built.
RECURSIVE pending_patches_loop(_, _, _)
pending_patches_loop(pending, i, payload) ==
    IF i > Len(pending) THEN payload
    ELSE LET h == hashes(pending[i].patch_list)
         IN  IF h.raised # "none" THEN payload
             ELSE IF h.hashes # <<>>
             THEN pending_patches_loop(pending, i + 1,
                      Append(payload, [category |-> pending[i].category,
                                       hashes |-> h.hashes]))
             ELSE pending_patches_loop(pending, i + 1, payload)

\* execute_update, lines 721-732: the 'patches' member of the payload for
\* the pending patches `pending`.
pending_patches_payload(pending) == pending_patches_loop(pending, 1, <<>>)

\* Answers to the GET of the pending patches and to the POST of the update
\* that leave the session in place.
UpdateResponses ==
    {Failure("Timeout")}
    \cup {Resp("none", 200, FALSE, FALSE, None, None, None, b) :
             b \in {"json_object", "json_other", "not_json"}}

\* A client that has logged in, without a cache; no call is running.
UpdateInit ==
    /\ base_url = <<"h">>
    /\ environment = <<"e">>
    /\ timeout = DefaultTimeout
    /\ load_balancer = None
    /\ auth_handler = NewHandler("AuthHandler", <<"u">>)
    /\ session_persistence = FALSE
    /\ session_info = <<SessionInfo("S2", "T2", None, TRUE)>>
    /\ cookies = [JSESSIONID |-> "S2", ROUTE |-> None]
    /\ cache = [k \in CacheKeys |-> <<>>]
    /\ clock = 0
    /\ pc = "idle"
    /\ op = "none"
    /\ include_pending_patches = FALSE
    /\ locals = NoLocals
    /\ outcome = "none"
    /\ result = <<>>
    /\ reqs = <<>>
    /\ response = NoResponse
    /\ io_error = FALSE
    /\ had_session = FALSE
    /\ had_entry = FALSE
    /\ auto_login = FALSE
    /\ login_result = "none"
    /\ follows = "other"

\* execute_update, line 706: the caller calls execute_update; the session is
\* authenticated, so _ensure_authenticated does nothing.
UpdateCall ==
    /\ ~_ensure_authenticated(session_info)
    /\ \E inc \in BOOLEAN :
        /\ Begin("execute_update", inc)
        /\ pc' = IF inc THEN "op_pending" ELSE "op_build"
    /\ auto_login' = FALSE
    /\ outcome' = "running"
    /\ result' = <<>>
    /\ UNCHANGED <<config, auth_handler, session_info, cookies, cache, clock>>

\* execute_update, line 724, with get_pending_patches, lines 790-813: fetch
\* the pending patches.  A failed request and a body that is not JSON end
\* the call with HacClientError, which the except clause of line 731 does
\* not name; JSON that is not an object has no items().
UpdateFetchPending ==
    /\ pc = "op_pending"
    /\ \E r \in UpdateResponses, d \in PendingDicts :
        LET error == raise_for_status(r)
            he == _handle_request_error(error, r, auth_handler,
                      session_persistence, session_info, cache, base_url,
                      environment, "none")
            exc == IF error # "none" THEN he.raised
                   ELSE IF r.body = "not_json" THEN "HacClientError"
                   ELSE IF r.body = "json_other" THEN "AttributeError"
                   ELSE "none"
        IN  /\ r.body # "json_object" => d = <<>>
            /\ reqs' = Append(reqs, Request("pending_patches",
                            PendingPatchesUrl, "GET", cookies.JSESSIONID,
                            cookies.ROUTE, CsrfHeader(session_info[1]),
                            timeout, error))
            /\ response' = r
            /\ locals' = IF exc = "none" THEN [pending |-> d] ELSE locals
            /\ pc' = IF exc = "none" THEN "op_build" ELSE "idle"
            /\ outcome' = IF exc = "none" THEN outcome ELSE exc
    /\ UNCHANGED <<config, call, auth_handler, session_info, cookies, cache,
                   clock, result, io_error, login_result>>

\* execute_update, lines 721-749: build the payload; its 'patches' member
\* is empty unless the pending patches were asked for.
UpdateBuildPayload ==
    /\ pc = "op_build"
    /\ locals' =
         IF include_pending_patches
         THEN [pending |-> locals.pending,
               patches |-> pending_patches_payload(locals.pending)]
         ELSE [patches |-> <<>>]
    /\ pc' = "op_request"
    /\ UNCHANGED <<config, call, auth_handler, session_info, cookies, cache,
                   clock, outcome, result, reqs, response, io_error,
                   login_result>>

\* execute_update, lines 751-778: POST the payload and read the answer.
UpdatePost ==
    /\ pc = "op_request"
    /\ \E r \in UpdateResponses :
        LET error == raise_for_status(r)
            he == _handle_request_error(error, r, auth_handler,
                      session_persistence, session_info, cache, base_url,
                      environment, "none")
            exc == IF error # "none" THEN he.raised
                   ELSE IF ParseError(op, r) # "none" THEN ParseError(op, r)
                   ELSE MapError(op, r)
        IN  /\ reqs' = Append(reqs, Request("operation", Endpoint(op),
                            Method(op), cookies.JSESSIONID, cookies.ROUTE,
                            CsrfHeader(session_info[1]), timeout, error))
            /\ response' = r
            /\ outcome' = IF exc = "none" THEN "returned" ELSE exc
    /\ pc' = "idle"
    /\ UNCHANGED <<config, call, auth_handler, session_info, cookies, cache,
                   clock, locals, result, io_error, login_result>>

UpdateNext ==
    \/ UpdateCall
    \/ UpdateFetchPending
    \/ UpdateBuildPayload
    \/ UpdatePost

UpdateSpec == UpdateInit /\ [][UpdateNext]_vars

(* ================================================================ claims *)

\* The cache entry of the client's own key.
ClientKey == _get_session_key(base_url, auth_handler.username, environment)
Entry == cache[ClientKey]

\* A call has ended: the caller has its result or its exception.
Ended(o) == pc = "idle" /\ op = o
Kinds(ks) == {i \in DOMAIN reqs : reqs[i].kind \in ks}

(* C1 ---------------------------------------------------------------------
   The credential provider can be called any number of times: every call of
   get_initial_credentials on a BasicAuthHandler, the first and each later
   one, returns normally with the j_username and j_password the handler was
   built with.  The code raises RuntimeError from the second call on. *)
C1_CredentialsReusable ==
    (Ended("get_initial_credentials") /\ auth_handler.kind = "BasicAuthHandler")
    => /\ outcome = "returned"
       /\ result = <<[j_username |-> auth_handler.username,
                      j_password |-> Password]>>

\* The last request the call issued.
LastRequest == reqs[Len(reqs)]

\* The answer in `response` is one a login check gives when the server
\* accepts the credentials: the console's home page, not the login form.
Accepted(r) == r.exc = "none" /\ r.status = 200 /\ ~r.jssc /\ ~r.juser

(* C2 ---------------------------------------------------------------------
   With caching enabled and no cache entry for the client's key, a login()
   against a server that serves a CSRF token, opens a session and accepts
   the credentials returns normally, leaves session_info holding the
   established session id, CSRF token and route cookie with
   is_authenticated true, and leaves a cache entry with the same session_id,
   csrf_token and route_cookie.  (No file operation fails.)  The code's
   login() asks a BasicAuthHandler for its credentials twice, at lines 241
   and 281, and the second call raises RuntimeError. *)
C2_FreshLoginCaches ==
    ( /\ Ended("login") /\ session_persistence /\ ~had_entry /\ ~io_error
      /\ reqs # <<>> /\ reqs[1].kind = "login_page" /\ reqs[1].error = "none"
      /\ Len(reqs) = 1 => response.csrf # None
      /\ Len(reqs) = 2 => Accepted(response) /\ cookies.JSESSIONID # None )
    => /\ outcome = "returned"
       /\ session_info # <<>>
       /\ session_info[1] =
            SessionInfo(cookies.JSESSIONID,
                        IF response.csrf # None THEN response.csrf
                        ELSE locals.csrf_token,
                        RouteCookieString(cookies.ROUTE), TRUE)
       /\ Entry # <<>>
       /\ Entry[1].session_id = session_info[1].session_id
       /\ Entry[1].csrf_token = session_info[1].csrf_token
       /\ Entry[1].route_cookie = session_info[1].route_cookie

(* C3 ---------------------------------------------------------------------
   When login() has found a cached session it issues the validation probe;
   the probe succeeds iff the response has status 200 and its body contains
   neither marker of the login form ('j_spring_security_check',
   'name="j_username"'); on success login() returns with session_info equal
   to the cached session and without the login-page GET or the login-check
   POST, and otherwise it goes on to the eviction. *)
C3_ValidationShortCircuit ==
    [][ pc = "login_validate" =>
          /\ Len(reqs') = Len(reqs) + 1
          /\ reqs'[Len(reqs')].kind = "probe"
          /\ reqs'[Len(reqs')].endpoint = LoginUrl
          /\ reqs'[Len(reqs')].jsessionid = Entry[1].session_id
          /\ (login_result' = "returned") <=>
                 ( /\ response'.exc = "none"
                   /\ response'.status = 200
                   /\ ~(response'.jssc \/ response'.juser) )
          /\ login_result' = "returned" =>
                 /\ session_info' =
                      <<SessionInfo(Entry[1].session_id, Entry[1].csrf_token,
                                    Entry[1].route_cookie,
                                    Entry[1].is_authenticated)>>
                 /\ \A i \in DOMAIN reqs' :
                        reqs'[i].kind \notin {"login_page", "login_check"}
                 /\ pc' # "login_get" /\ pc' # "login_evict"
                 /\ op = "login" => pc' = "idle" /\ outcome' = "returned"
                 /\ cache' = cache
          /\ login_result' # "returned" => pc' = "login_evict"
      ]_vars

\* login() returned on the strength of the probe alone.
C3_Witness ==
    /\ Ended("login") /\ outcome = "returned" /\ login_result = "returned"
    /\ Len(reqs) = 1 /\ reqs[1].kind = "probe"
    /\ session_info # <<>> /\ Entry # <<>>
    /\ session_info[1].session_id = Entry[1].session_id

(* C4 ---------------------------------------------------------------------
   When the cached session has failed validation, the same login() call
   removes the cache entry of the client's key and goes on to the fresh
   login; it does not stop after (or instead of) the eviction.  (The unlink
   does not fail.)  In the code the eviction asks a BasicAuthHandler for the
   username a second time (line 260), which raises RuntimeError. *)
C4_EvictThenFreshLogin ==
    [][ (pc = "login_evict" /\ ~io_error') =>
          /\ cache'[ClientKey] = <<>>
          /\ pc' = "login_get"
          /\ outcome' = "running"
      ]_vars

\* An operation's request (its own, or the pending-patches fetch of
\* execute_update) has just been answered with the status st.
Answered(sts) ==
    /\ pc \in {"op_request", "op_pending"}
    /\ Len(reqs') = Len(reqs) + 1
    /\ response'.exc = "none"
    /\ response'.status \in sts

(* C5 ---------------------------------------------------------------------
   An authenticated call that receives HTTP 401, 403 or 405 leaves the
   client with no in-memory session and no cache entry for its key and
   raises the authentication error, with caching enabled or disabled and
   whether or not the deletion of the cache entry succeeds.  The code clears
   session_info only with caching enabled and only after a successful
   deletion, and lets the handler's RuntimeError escape. *)
C5_AuthErrorClearsSession ==
    [][ Answered({401, 403, 405}) =>
          /\ pc' = "idle"
          /\ outcome' = "HacAuthenticationError"
          /\ session_info' = <<>>
          /\ cache'[ClientKey] = <<>>
      ]_vars

(* C6 ---------------------------------------------------------------------
   No retry: within one operation call, a request that failed (the code saw
   an HTTP error status, a timeout or a network error raised for it) is the
   last request of the call and the call has ended with an exception; no
   login request follows a request of the operation, and no endpoint of the
   operation is requested twice. *)
C6_NoRetry ==
    op \in Operations =>
      /\ \A i \in DOMAIN reqs :
            (reqs[i].kind \in OperationKinds /\ reqs[i].error # "none") =>
               /\ i = Len(reqs)
               /\ pc = "idle"
               /\ outcome \in Exceptions
      /\ \A i, j \in DOMAIN reqs :
            (i < j /\ reqs[i].kind \in OperationKinds) =>
               /\ reqs[j].kind \notin LoginKinds
               /\ reqs[j].endpoint # reqs[i].endpoint

\* An operation ended on a 401 of its own request, the request being the
\* last one issued.
C6_Witness ==
    /\ op \in Operations /\ pc = "idle"
    /\ outcome = "HacAuthenticationError"
    /\ reqs # <<>> /\ LastRequest.kind = "operation"
    /\ LastRequest.error = "HTTPError" /\ response.status = 401

(* C7 ---------------------------------------------------------------------
   With caching enabled, an operation that completes successfully sets
   last_used_at of the client's cache entry to the time of the call, a value
   not smaller than before, and leaves created_at, session_id, csrf_token
   and route_cookie of the entry unchanged.  In the code
   get_pending_patches never touches the entry, and the other six
   operations call SessionManager.touch_session, which does not exist. *)
C7_SuccessTouchesEntry ==
    [][ ( /\ pc = "op_request" /\ pc' = "idle" /\ outcome' = "returned"
          /\ session_persistence /\ Entry # <<>> ) =>
          /\ cache'[ClientKey] # <<>>
          /\ cache'[ClientKey][1].last_used_at = clock
          /\ cache'[ClientKey][1].last_used_at >= Entry[1].last_used_at
          /\ cache'[ClientKey][1].created_at = Entry[1].created_at
          /\ cache'[ClientKey][1].session_id = Entry[1].session_id
          /\ cache'[ClientKey][1].csrf_token = Entry[1].csrf_token
          /\ cache'[ClientKey][1].route_cookie = Entry[1].route_cookie
      ]_vars

(* C8 ---------------------------------------------------------------------
   A failure of the timestamp touch is never fatal: when the server has
   answered an operation's request successfully (status 200 with a
   well-formed body), the operation returns its typed result, whatever
   happens in the touch step.  In the code the touch step raises
   AttributeError (touch_session is not a method of SessionManager) or
   RuntimeError (the handler's credentials are used up), and _touch_session
   catches neither. *)
C8_TouchNeverFatal ==
    [][ ( /\ pc = "op_request" /\ session_info # <<>>
          /\ Len(reqs') = Len(reqs) + 1
          /\ response'.exc = "none" /\ response'.status = 200
          /\ response'.body = "json_object" ) =>
          /\ pc' = "idle"
          /\ outcome' = "returned"
          /\ result' = <<[type |-> ResultType(op)]>>
      ]_vars

\* What is available after the login check's answer r: the session id and
\* the CSRF token, from the answer or carried over from the login page.
SessionIdAfter(r) ==
    IF r.set_sid # None THEN r.set_sid
    ELSE IF cookies.JSESSIONID # None THEN cookies.JSESSIONID
    ELSE locals.session_id
CsrfTokenAfter(r) == IF r.csrf # None THEN r.csrf ELSE locals.csrf_token

(* C9 ---------------------------------------------------------------------
   A fresh login raises the authentication error whenever the login check's
   response has a status other than 200, or its body still contains the
   login form's marker 'j_spring_security_check', or no session id or no
   CSRF token is available after the POST; in each case that login() call
   writes no cache entry and stores no session. *)
C9_LoginCheckRejected ==
    [][ ( /\ pc = "login_post"
          /\ response'.exc = "none"
          /\ \/ response'.status # 200
             \/ response'.jssc
             \/ SessionIdAfter(response') = None
             \/ CsrfTokenAfter(response') = None ) =>
          /\ pc' = "idle"
          /\ outcome' = "HacAuthenticationError"
          /\ login_result' = "raised"
          /\ cache' = cache
          /\ session_info' = session_info
      ]_vars

\* login() ended with the authentication error on a login check answered
\* with status 200 and the login form.
C9_Witness ==
    /\ pc = "idle" /\ login_result = "raised"
    /\ outcome = "HacAuthenticationError"
    /\ reqs # <<>> /\ LastRequest.kind = "login_check"
    /\ response.exc = "none" /\ response.status = 200 /\ response.jssc

(* C10 --------------------------------------------------------------------
   An operation invoked while the client has no authenticated session first
   runs login(): no request of the operation is issued while login() runs,
   one is issued only after login() returned normally, and when login()
   fails the operation ends with login()'s exception and none of its
   endpoints is requested. *)
C10_LoginBeforeOperation ==
    (op \in Operations /\ ~had_session) =>
      /\ auto_login
      /\ outcome # "none"
      /\ Kinds(OperationKinds) # {} => login_result = "returned"
      /\ pc \in {"op_page", "op_pending", "op_request"} =>
            login_result = "returned"
      /\ login_result = "none" =>
            pc \in {"login_load", "login_validate", "login_evict",
                    "login_get", "login_post"}
      /\ login_result = "raised" =>
            /\ pc = "idle"
            /\ outcome \in Exceptions
            /\ Kinds(OperationKinds) = {}
      /\ \A i, j \in DOMAIN reqs :
            (reqs[i].kind \in LoginKinds /\ reqs[j].kind \in OperationKinds)
               => i < j

\* An operation begun without a session has logged in and then issued its
\* own request.
C10_Witness ==
    /\ op \in Operations /\ ~had_session /\ auto_login
    /\ login_result = "returned"
    /\ Kinds({"login_check"}) # {} /\ Kinds({"operation"}) # {}
    /\ pc = "idle" /\ outcome = "returned"

\* The positions of a call at which an operation's request is about to go out.
OperationPositions == {"op_page", "op_pending", "op_request"}

\* This step sends a request of an operation.
SendsOperationRequest ==
    pc \in OperationPositions /\ Len(reqs') = Len(reqs) + 1

(* C11 --------------------------------------------------------------------
   In execute_update with pending patches enabled, a failure to fetch the
   pending patches (network error, timeout, non-2xx status, unparseable
   body) does not abort the update: the call goes on to the update-execute
   POST.  In the code get_pending_patches turns each of these failures into
   HacClientError or HacAuthenticationError, which the except clause of
   execute_update (line 731) does not name. *)
C11_PendingFailureTolerated ==
    [][ ( /\ pc = "op_pending" /\ op = "execute_update"
          /\ Len(reqs') = Len(reqs) + 1
          /\ \/ raise_for_status(response') # "none"
             \/ response'.body = "not_json" ) =>
          /\ pc' = "op_request"
          /\ outcome' = "running"
      ]_vars

(* C12 --------------------------------------------------------------------
   A session is used only when both its session_id and its csrf_token are
   present: an authenticated session, fresh or restored from the cache, has
   both, every request of an operation is sent with such a session and
   carries its token, and a call that could not get such a session ends with
   an exception without any request of the operation. *)
C12_SessionUsable ==
    /\ (session_info # <<>> /\ session_info[1].is_authenticated) =>
          /\ session_info[1].session_id # None
          /\ session_info[1].csrf_token # None
    /\ pc \in OperationPositions =>
          session_info # <<>> /\ session_info[1].is_authenticated
    /\ \A i \in DOMAIN reqs :
          reqs[i].kind \in OperationKinds => reqs[i].csrf # None
    /\ (op \in Operations /\ pc = "idle" /\ Kinds(OperationKinds) = {}) =>
          outcome \in Exceptions

\* An operation sent its request with a session restored from the cache.
C12_Witness ==
    /\ op \in Operations /\ auto_login /\ login_result = "returned"
    /\ reqs # <<>> /\ reqs[1].kind = "probe"
    /\ Kinds({"operation"}) # {}
    /\ session_info # <<>> /\ session_info[1].csrf_token # None

(* C13 --------------------------------------------------------------------
   Every request of an operation (the update-page and pending-patches
   requests included) carries the JSESSIONID of the current session_info
   and, when the session has a route cookie, its ROUTE value; also the first
   operation of a new client whose session was restored from the cache.
   Only execute_groovy puts the session's cookies into the jar; the other
   operations send what the jar holds. *)
C13_RequestsCarrySession ==
    [][ SendsOperationRequest =>
          /\ reqs'[Len(reqs')].jsessionid = session_info[1].session_id
          /\ session_info[1].route_cookie # None =>
                reqs'[Len(reqs')].route =
                    RouteValue(session_info[1].route_cookie)
      ]_vars

(* C14 --------------------------------------------------------------------
   Every state-changing POST after login (script, query, import, update
   execution) carries the CSRF header, with the csrf_token of the current
   session_info as its value. *)
C14_PostCarriesCsrf ==
    [][ (SendsOperationRequest /\ reqs'[Len(reqs')].method = "POST") =>
          /\ reqs'[Len(reqs')].kind = "operation"
          /\ reqs'[Len(reqs')].csrf # None
          /\ reqs'[Len(reqs')].csrf = session_info[1].csrf_token
      ]_vars

\* A POST of an operation has gone out with the token of a fresh login.
C14_Witness ==
    /\ op \in {"execute_groovy", "execute_flexiblesearch", "import_impex",
               "execute_update"}
    /\ reqs # <<>> /\ LastRequest.kind = "operation"
    /\ LastRequest.method = "POST" /\ LastRequest.csrf = "T2"

\* The file of key k holds a well-formed SessionMetadata.
Readable(c, k) == c[k] # <<>> /\ ReadError(c[k][1]) = "none"

\* This step is a call of the SessionManager method m; its key.
Calls(m) == op' = m /\ clock' = clock
CalledKey == TripleKey(locals'.triple)

(* C15 --------------------------------------------------------------------
   Cache round trip: a save that meets no I/O error leaves under its key the
   session_id, csrf_token and route_cookie passed, the environment, base_url
   and username of the key, is_authenticated true and a last_used_at not
   smaller than the one of the entry before the save; a load of the same key
   right after the save returns that metadata, created_at included. *)
C15_SaveLoadRoundTrip ==
    [][ /\ (Calls("save_session") /\ outcome' = "returned" /\ ~io_error') =>
              /\ Readable(cache', CalledKey)
              /\ cache'[CalledKey][1].session_id = locals'.session_id
              /\ cache'[CalledKey][1].csrf_token = locals'.csrf_token
              /\ cache'[CalledKey][1].route_cookie = locals'.route_cookie
              /\ cache'[CalledKey][1].base_url = locals'.triple[1]
              /\ cache'[CalledKey][1].username = locals'.triple[2]
              /\ cache'[CalledKey][1].environment = locals'.triple[3]
              /\ cache'[CalledKey][1].is_authenticated
              /\ cache'[CalledKey][1].last_used_at = clock
              /\ Readable(cache, CalledKey) =>
                    cache'[CalledKey][1].last_used_at
                        >= cache[CalledKey][1].last_used_at
        /\ ( /\ op = "save_session" /\ outcome = "returned" /\ ~io_error
             /\ Calls("load_session") /\ locals'.triple = locals.triple
             /\ ~io_error' ) =>
              /\ outcome' = "returned"
              /\ result' = cache[CalledKey]
              /\ result' # <<>>
              /\ result'[1].session_id = locals.session_id
              /\ result'[1].csrf_token = locals.csrf_token
              /\ result'[1].route_cookie = locals.route_cookie
              /\ cache' = cache
      ]_vars

\* A load has returned the session with a route that was saved over an
\* older entry of its key.
C15_Witness ==
    /\ op = "load_session" /\ outcome = "returned" /\ result # <<>>
    /\ result[1].session_id = "S2"
    /\ result[1].route_cookie = RouteCookieString("R1")
    /\ result[1].created_at < result[1].last_used_at

(* C16 --------------------------------------------------------------------
   Across saves to the same key with no remove in between, created_at stays
   the value the first save set (the time of that save); a later save leaves
   created_at, environment, base_url, username and is_authenticated of the
   entry as they were. *)
C16_CreatedAtPreserved ==
    [][ (Calls("save_session") /\ outcome' = "returned" /\ ~io_error') =>
          /\ cache[CalledKey] = <<>> =>
                cache'[CalledKey][1].created_at = clock
          /\ ( /\ Readable(cache, CalledKey)
               /\ cache[CalledKey][1].base_url = locals'.triple[1]
               /\ cache[CalledKey][1].username = locals'.triple[2]
               /\ cache[CalledKey][1].environment = locals'.triple[3] ) =>
                /\ cache'[CalledKey][1].created_at
                       = cache[CalledKey][1].created_at
                /\ cache'[CalledKey][1].base_url = cache[CalledKey][1].base_url
                /\ cache'[CalledKey][1].username = cache[CalledKey][1].username
                /\ cache'[CalledKey][1].environment
                       = cache[CalledKey][1].environment
                /\ cache'[CalledKey][1].is_authenticated
                       = cache[CalledKey][1].is_authenticated
      ]_vars

\* A save has just rewritten an entry that an earlier save created.
C16_Witness ==
    /\ op = "save_session" /\ outcome = "returned" /\ had_entry /\ ~io_error
    /\ Readable(cache, TripleKey(locals.triple))
    /\ cache[TripleKey(locals.triple)][1].created_at = 0
    /\ cache[TripleKey(locals.triple)][1].last_used_at = 1
    /\ cache[TripleKey(locals.triple)][1].username = locals.triple[2]

(* C17 --------------------------------------------------------------------
   Distinct (url, user, env) triples never share a cache entry: a save or a
   remove under one triple never changes what load returns under another
   triple.  The code derives the file name from the string
   f"{base_url}:{username}:{environment}", which is the same for triples
   that differ in where a colon falls. *)
C17_TriplesIsolated ==
    [][ (Calls("save_session") \/ Calls("remove_session")) =>
          \A t \in Triples \ {locals'.triple} :
              load_session(cache', t[1], t[2], t[3], "none").metadata
                  = load_session(cache, t[1], t[2], t[3], "none").metadata
      ]_vars

(* C18 --------------------------------------------------------------------
   For every corrupt or unparseable cache entry (not decodable text, not
   JSON, JSON that is not an object, an object with missing or unknown
   fields), a load that meets no I/O error returns absent without raising,
   and the entry no longer exists afterwards.  The code's except clause
   names json.JSONDecodeError, TypeError and KeyError; the UnicodeDecodeError
   of an undecodable file is none of them. *)
C18_CorruptEntryHeals ==
    [][ ( /\ Calls("load_session") /\ ~io_error'
          /\ cache[CalledKey] # <<>> /\ ~Readable(cache, CalledKey) ) =>
          /\ outcome' = "returned"
          /\ result' = <<>>
          /\ cache'[CalledKey] = <<>>
      ]_vars

(* C19 --------------------------------------------------------------------
   Cache I/O failures are swallowed: no login() and no operation ends with
   the I/O error of a cache file; the call goes on as it would with caching
   disabled.  In the code load_session does not catch the OSError of open(),
   save_session calls load_session outside its try block, and login() calls
   remove_session, whose unlink is unguarded, outside any try block. *)
C19_CacheIOSwallowed ==
    (op = "login" \/ op \in Operations) => outcome # "OSError"

(* C20 --------------------------------------------------------------------
   remove on a key without a cache entry raises no error and leaves every
   cache entry unchanged, and a remove that returned leaves a cache on which
   a second remove of the key changes nothing. *)
C20_RemoveIdempotent ==
    [][ Calls("remove_session") =>
          /\ cache[CalledKey] = <<>> =>
                outcome' = "returned" /\ cache' = cache /\ ~io_error'
          /\ outcome' = "returned" =>
                /\ cache'[CalledKey] = <<>>
                /\ \A k \in TripleKeys \ {CalledKey} : cache'[k] = cache[k]
                /\ remove_session(cache', locals'.triple[1],
                                  locals'.triple[2], locals'.triple[3],
                                  "none")
                     = [raised |-> "none", cache |-> cache',
                        io_error |-> FALSE]
      ]_vars

\* remove has returned for a key that had no entry, next to another key's
\* entry.
C20_Witness ==
    /\ op = "remove_session" /\ outcome = "returned" /\ ~had_entry
    /\ cache[TripleKey(locals.triple)] = <<>>
    /\ \E k \in TripleKeys : cache[k] # <<>>

\* This step is the one in which login() returns normally.
LoginReturns == login_result = "none" /\ login_result' = "returned"

(* C21 --------------------------------------------------------------------
   With caching disabled no step of a login() or of an operation changes a
   cache entry or meets a file-system fault, whatever the cache directory
   holds; login() goes from its start straight to the login-page GET without
   asking the handler for a cache key and without adopting a session, and it
   returns only from an accepted login check; when it returns, session_info
   is authenticated and is the session the cookie jar holds; an operation
   called with that session does not log in again and its POST carries the
   session's CSRF token. *)
C21_CachingDisabled ==
    [][ ~session_persistence =>
          /\ cache' = cache
          /\ ~io_error'
          /\ pc = "login_load" =>
                /\ pc' = "login_get"
                /\ session_info' = session_info
                /\ auth_handler' = auth_handler
                /\ reqs' = reqs
          /\ LoginReturns =>
                /\ pc = "login_post"
                /\ response'.exc = "none" /\ response'.status = 200
                /\ ~response'.jssc
                /\ session_info' # <<>>
                /\ session_info'[1].is_authenticated
                /\ session_info'[1].session_id # None
                /\ session_info'[1].session_id = cookies'.JSESSIONID
                /\ session_info'[1].csrf_token # None
          /\ ( /\ pc = "idle" /\ pc' # "idle" /\ op' \in Operations
               /\ session_info # <<>> /\ session_info[1].is_authenticated ) =>
                /\ ~auto_login'
                /\ pc' \in OperationPositions
                /\ session_info' = session_info
          /\ (SendsOperationRequest /\ reqs'[Len(reqs')].method = "POST") =>
                reqs'[Len(reqs')].csrf = session_info[1].csrf_token
      ]_vars

\* With caching disabled and an entry of an earlier run in the cache
\* directory, an operation has logged in and a following operation has sent
\* its request with the session of that login.
C21_Witness ==
    /\ ~session_persistence /\ Entry # <<>>
    /\ op \in Operations /\ had_session /\ ~auto_login
    /\ pc = "idle" /\ outcome = "returned"
    /\ reqs # <<>> /\ LastRequest.kind = "operation"
    /\ LastRequest.jsessionid = session_info[1].session_id

\* The request sent in this step met a failure of the transport or of the
\* server: no answer, or a status for which raise_for_status() raised and
\* that is none of 401, 403, 405.
TransportFailure ==
    /\ Len(reqs') = Len(reqs) + 1
    /\ reqs'[Len(reqs')].error # "none"
    /\ response'.exc = "none" => response'.status \notin {401, 403, 405}

(* C22 --------------------------------------------------------------------
   A timeout, a network failure or a non-2xx status other than 401/403/405
   on a request of an operation ends the call with HacClientError, not with
   HacAuthenticationError; so does such a failure of the login-page GET or
   of the login-check POST in the login() that the operation ran (the
   validation probe, whose failure only leads to the fresh login, is not
   concerned).  The code's login() turns every requests exception into
   HacAuthenticationError (client.py:349-350). *)
C22_TransportErrorIsClientError ==
    [][ ( /\ op \in Operations
          /\ TransportFailure
          /\ reqs'[Len(reqs')].kind \in
                 {"operation", "pending_patches", "login_page",
                  "login_check"} ) =>
          /\ pc' = "idle"
          /\ outcome' = "HacClientError"
      ]_vars

\* The operations whose request expects a JSON object in the response.
StructuredOperations == Operations \ {"import_impex"}

(* C23 --------------------------------------------------------------------
   For every operation that expects a JSON response (script, query,
   update-data, pending-patches, update-execute, update-log) a response with
   status 200 whose body is not JSON, or is JSON that is not an object, ends
   the operation with HacClientError.  In the code only the body that is not
   JSON does: JSON that is not an object makes result.get(...) raise
   AttributeError, which no except clause names, and get_pending_patches
   returns it as its result. *)
C23_MalformedBodyIsClientError ==
    [][ ( /\ pc = "op_request" /\ op \in StructuredOperations
          /\ Len(reqs') = Len(reqs) + 1
          /\ response'.exc = "none" /\ response'.status = 200
          /\ response'.body \in {"not_json", "json_other"} ) =>
          /\ pc' = "idle"
          /\ outcome' = "HacClientError"
      ]_vars

(* C24 --------------------------------------------------------------------
   Every request the client issues (validation probe, login-page GET,
   login-check POST, every request of an operation) carries the timeout the
   caller configured on the client.  The code's validation probe carries a
   fixed timeout of 5 seconds. *)
C24_RequestsCarryTimeout ==
    \A i \in DOMAIN reqs : reqs[i].timeout = timeout

\* Every character of s is white space.
Blank(s) == \A i \in DOMAIN s : s[i] \in Whitespace

\* The stacktraceText of the JSON object `data` is absent, null or the
\* empty string.
NoStackTrace(data) ==
    \/ "stacktraceText" \notin DOMAIN data
    \/ data.stacktraceText = <<>>
    \/ data.stacktraceText[1] = <<>>

(* C25, as stated ---------------------------------------------------------
   The script result's success is true iff the response's stacktraceText is
   absent (or null) or the empty string, whatever the other fields are. *)
C25_SuccessIffNoStackTrace ==
    op = "GroovyScriptResult" =>
        (success(result[1]) <=> NoStackTrace(locals.data))

(* C25, amended -----------------------------------------------------------
   The script result's success is true iff the response's stacktraceText is
   absent, null, or a string of white space only (the empty string
   included), whatever the other fields and the commit flag are (the
   condition reads no other field); a stacktraceText with any other
   character yields success false. *)
C25_SuccessIffBlankStackTrace ==
    op = "GroovyScriptResult" =>
        /\ success(result[1]) <=>
              \/ NoStackTrace(locals.data)
              \/ Blank(locals.data.stacktraceText[1])
        /\ result[1].stacktrace_text
              = get(locals.data, "stacktraceText", <<>>)

\* A result built from a response with output and a stack trace that has
\* white space around its text: success is false.
C25_Witness ==
    /\ op = "GroovyScriptResult" /\ outcome = "returned"
    /\ "outputText" \in DOMAIN locals.data
    /\ "stacktraceText" \in DOMAIN locals.data
    /\ locals.data.stacktraceText = << <<" ", "e", "r", "r">> >>
    /\ ~success(result[1])

\* t is s without the white space at its two ends.
StrippedOf(t, s) ==
    /\ t # <<>> => (t[1] \notin Whitespace /\ t[Len(t)] \notin Whitespace)
    /\ \E i \in 0..Len(s) :
          /\ i + Len(t) <= Len(s)
          /\ SubSeq(s, i + 1, i + Len(t)) = t
          /\ Blank(SubSeq(s, 1, i))
          /\ Blank(SubSeq(s, i + Len(t) + 1, Len(s)))

\* s holds the word error in any mix of upper and lower case.
MentionsError(s) ==
    \E i \in 1..(Len(s) - 4) :
        /\ s[i] \in {"e", "E"} /\ s[i + 1] \in {"r", "R"}
        /\ s[i + 2] \in {"r", "R"} /\ s[i + 3] \in {"o", "O"}
        /\ s[i + 4] \in {"r", "R"}

(* C26 --------------------------------------------------------------------
   Import result mapping: when the response has the result container, the
   output is the container's text without the white space at its ends and
   success is true iff that text does not hold "error" in any case; when it
   has none, the output is the raw body and success is true for status 200;
   in both cases the mapping returns a result, whose error field equals the
   output when success is false and is absent when success is true. *)
C26_ImpexResultMapping ==
    op = "ImpexResult" =>
        LET r == locals.response
            res == result[1]
        IN  /\ outcome = "returned"
            /\ r.result_div # <<>> =>
                  /\ StrippedOf(res.output, r.result_div[1])
                  /\ res.success <=> ~MentionsError(res.output)
            /\ r.result_div = <<>> =>
                  /\ res.output = r.text
                  /\ r.status = 200 => res.success
            /\ res.success => res.error = <<>>
            /\ ~res.success => res.error = <<res.output>>

\* A container whose text says ERRor with white space around it: the result
\* reports the failure, with the stripped text as output and as error.
C26_Witness ==
    /\ op = "ImpexResult" /\ outcome = "returned"
    /\ locals.response.status = 200
    /\ locals.response.result_div = << <<" ", "E", "R", "R", "o", "r">> >>
    /\ result[1].output = <<"E", "R", "R", "o", "r">>
    /\ ~result[1].success
    /\ result[1].error = <<result[1].output>>

\* The extensions of the list l whose name holds the word patches: as
\* written, and whatever the case of the name's letters.
Patchy(l) == {i \in DOMAIN l : contains(l[i].name, patches)}
PatchyAnyCase(l) == {i \in DOMAIN l : contains(lower(l[i].name), patches)}

\* The tie-break policy for the list l and the answer res, where P is the
\* set of positions whose name counts as containing the word and bare(n)
\* says that the name n is the word alone.
FollowsPolicy(l, res, P, bare(_)) ==
    /\ res = <<>> <=> P = {}
    /\ res # <<>> =>
          /\ \E i \in P : l[i] = res[1]
          /\ (\E i \in P : l[i].parameters # <<>>) =>
                /\ res[1].parameters # <<>>
                /\ (\E i \in P : l[i].parameters # <<>> /\ ~bare(l[i].name))
                      => ~bare(res[1].name)

IsPatches(n) == n = patches
IsPatchesAnyCase(n) == lower(n) = patches

\* The list [patches (no parameters), acmepatches (with parameters)].
SpecExample ==
    << ProjectData(patches, <<>>),
       ProjectData(<<"a", "c", "m", "e">> \o patches, <<"p1">>) >>

(* C27, as stated ---------------------------------------------------------
   get_patches_extension returns nothing iff no name contains "patches";
   otherwise it returns an extension whose name contains "patches", one with
   parameters if there is one, among those one whose name is more than the
   word "patches" if there is one; for [patches (no parameters), acmepatches
   (with parameters)] it returns acmepatches. *)
C27_PatchesTieBreak ==
    op = "get_patches_extension" =>
        /\ FollowsPolicy(locals.project_datas, result,
                         Patchy(locals.project_datas), IsPatches)
        /\ locals.project_datas = SpecExample => result = <<SpecExample[2]>>

(* C27, amended -----------------------------------------------------------
   The same policy with names compared without regard to case: nothing is
   returned iff no name contains "patches" in any mix of upper and lower
   case; otherwise the extension returned has such a name, has parameters
   if such an extension with parameters exists, and then has a name that is
   more than the word "patches" (in any case) if such an extension with
   parameters exists; for [patches (no parameters), acmepatches (with
   parameters)] it is acmepatches. *)
C27_PatchesTieBreakAnyCase ==
    op = "get_patches_extension" =>
        /\ FollowsPolicy(locals.project_datas, result,
                         PatchyAnyCase(locals.project_datas),
                         IsPatchesAnyCase)
        /\ locals.project_datas = SpecExample => result = <<SpecExample[2]>>

\* For the list of patches, Patches and acmepatches, all three with
\* parameters, the answer is acmepatches: the first whose name, in lower
\* case, is more than the word.
C27_Witness ==
    /\ op = "get_patches_extension" /\ outcome = "returned"
    /\ locals.project_datas =
          << ProjectData(patches, <<"p1">>),
             ProjectData(<<"P">> \o Tail(patches), <<"p1">>),
             ProjectData(<<"a", "c", "m", "e">> \o patches, <<"p1">>) >>
    /\ result = <<locals.project_datas[3]>>

\* The request sent in this step, if any, is answered as a server that
\* accepts the credentials answers it: the login page comes with a CSRF
\* token, and the login check leads to the console, with a session opened
\* by one of the two.
ServerAccepts ==
    Len(reqs') = Len(reqs) + 1 =>
        LET q == reqs'[Len(reqs')]
        IN  /\ q.kind = "login_page" =>
                  q.error = "none" /\ response'.csrf # None
            /\ q.kind = "login_check" =>
                  Accepted(response') /\ SessionIdAfter(response') # None

(* C28 --------------------------------------------------------------------
   After an operation raised HacAuthenticationError, a login() called by
   the caller against a server that accepts the credentials (no file
   operation failing) raises nothing and returns from the login check with
   session_info holding the session and token that the login check left,
   authenticated; the requests of the operation called next carry that
   session's id, and its POST that session's CSRF token.  With a
   BasicAuthHandler the code's login() raises RuntimeError when it asks
   for the credentials (C1). *)
C28_ReloginAfterAuthError ==
    [][ /\ ( /\ follows = "auth_error" /\ pc # "idle"
             /\ ServerAccepts /\ ~io_error' ) =>
              /\ outcome' \in {"running", "returned"}
              /\ pc = "login_post" =>
                    /\ outcome' = "returned"
                    /\ session_info' =
                         <<SessionInfo(SessionIdAfter(response'),
                                       CsrfTokenAfter(response'),
                                       RouteCookieString(cookies'.ROUTE),
                                       TRUE)>>
        /\ (follows = "relogin" /\ SendsOperationRequest) =>
              /\ reqs'[Len(reqs')].jsessionid = session_info[1].session_id
              /\ reqs'[Len(reqs')].method = "POST" =>
                    reqs'[Len(reqs')].csrf = session_info[1].csrf_token
      ]_vars

\* session_info si is an authenticated session.
Authenticated(si) == si # <<>> /\ si[1].is_authenticated

(* C29 --------------------------------------------------------------------
   Whenever login() has ended with an error, session_info is not an
   authenticated session, and an operation called next runs login().  The
   code's login() stores the cached session in session_info before it
   validates it (client.py:245-250) and takes it back nowhere: when the
   validation fails and the fresh login then fails, session_info still is
   the evicted session, is_authenticated true. *)
C29_FailedLoginLeavesNoSession ==
    [][ /\ login_result' = "raised" => ~Authenticated(session_info')
        /\ ( /\ pc = "idle" /\ login_result = "raised"
             /\ op' \in Operations /\ pc' # "idle" ) =>
              auto_login' /\ pc' = "login_load"
      ]_vars

(* C30 --------------------------------------------------------------------
   Whenever login() has returned normally, from the validation of a cached
   session or from the login check of a fresh login, session_info is
   present with is_authenticated true, and an operation called next goes to
   its own request without running login() again. *)
C30_LoginLeavesSession ==
    [][ /\ LoginReturns =>
              /\ Authenticated(session_info')
              /\ pc \in {"login_validate", "login_post"}
        /\ (op' = "login" /\ outcome' = "returned") =>
              Authenticated(session_info')
        /\ ( /\ pc = "idle" /\ op = "login" /\ outcome = "returned"
             /\ op' \in Operations /\ pc' # "idle" ) =>
              /\ ~auto_login'
              /\ pc' \in OperationPositions
              /\ session_info' = session_info
      ]_vars

\* An operation called after a login() that reused a validated cached
\* session has sent its request without logging in again.
C30_Witness ==
    /\ op \in Operations /\ had_session /\ ~auto_login
    /\ follows = "other" /\ login_result = "none"
    /\ reqs # <<>> /\ LastRequest.kind = "operation"
    /\ Kinds(LoginKinds) = {}
    /\ Entry # <<>> /\ Entry[1].session_id = session_info[1].session_id
    /\ cookies.JSESSIONID = None

\* The request of an operation sent in this step failed otherwise than with
\* a status 401, 403 or 405: no answer, another status that
\* raise_for_status() rejects, or a 200 whose body is not the JSON object
\* expected.
FailsWithoutAuthError ==
    /\ pc \in OperationPositions
    /\ \/ TransportFailure
       \/ /\ Len(reqs') = Len(reqs) + 1
          /\ op \in StructuredOperations /\ pc # "op_page"
          /\ response'.exc = "none" /\ response'.status = 200
          /\ response'.body \in {"not_json", "json_other"}

(* C31 --------------------------------------------------------------------
   A request of an operation that fails with anything but a status 401, 403
   or 405 (timeout, network failure, other status of the 4xx and 5xx
   ranges, malformed body) leaves session_info and every cache entry, the
   one of the client's key included, as they were. *)
C31_OtherErrorsKeepSession ==
    [][ FailsWithoutAuthError =>
          /\ session_info' = session_info
          /\ cache' = cache
      ]_vars

\* An operation of a client with an authenticated session and a cache entry
\* has ended with HacClientError after a timeout; both are still there.
C31_Witness ==
    /\ op \in Operations /\ pc = "idle" /\ outcome = "HacClientError"
    /\ session_persistence /\ had_session /\ had_entry
    /\ reqs # <<>> /\ LastRequest.kind = "operation"
    /\ LastRequest.error = "Timeout"
    /\ Authenticated(session_info) /\ Entry # <<>>

(* C32 --------------------------------------------------------------------
   With one client used by two callers, no eviction by one caller falls
   between the other caller's authentication check and the building of its
   request: a caller that has passed the check finds session_info present
   when it builds its request, and no caller reads the fields of an absent
   session.  The code holds no lock: the eviction of
   _clear_invalid_session (client.py:370) runs whenever its caller's answer
   arrives. *)
C32_SessionMutationsSerialized ==
    \A t \in Callers :
        /\ pc[t] = "op_build" => session_info # <<>>
        /\ locals[t].session_id # "absent"

(* C33 --------------------------------------------------------------------
   In the fresh login the login-check POST carries the JSESSIONID cookie
   and the ROUTE cookie with the values that the cookie jar holds after the
   login-page response, the CSRF token taken from the login page, and the
   handler's credentials.  The code passes its route_cookie string, which
   is "ROUTE=" followed by the value, as the value of the ROUTE cookie
   (client.py:275, 291-292). *)
C33_LoginCheckCarriesCaptured ==
    [][ pc = "login_post" =>
          /\ Len(reqs') = Len(reqs) + 1
          /\ reqs'[Len(reqs')].kind = "login_check"
          /\ reqs'[Len(reqs')].jsessionid = cookies.JSESSIONID
          /\ reqs'[Len(reqs')].route = cookies.ROUTE
          /\ reqs'[Len(reqs')].csrf = locals.csrf_token
          /\ reqs'[Len(reqs')].csrf # None
          /\ locals.credentials =
                [j_username |-> auth_handler.username, j_password |-> Password]
      ]_vars

\* The CSRF token a login page carries: the value of its _csrf input, or,
\* without such an input, the content of its _csrf meta tag.
PageToken(r) == IF r.csrf # None THEN r.csrf ELSE r.meta

\* The login-page GET of this step was answered with a page (status 200).
LoginPageArrives ==
    pc = "login_get" /\ response'.exc = "none" /\ response'.status = 200

\* What login() takes from the login page it receives in this step: no token
\* on the page ends login() with the authentication error, no credentials
\* asked for and no login check sent; otherwise, when the handler supplies
\* the credentials, login() goes on to the login check holding the page's
\* token, the JSESSIONID the response set and "ROUTE=" with the ROUTE value
\* the response set.
ExtractsFromLoginPage ==
    /\ (LoginPageArrives /\ PageToken(response') = None) =>
          /\ outcome' = "HacAuthenticationError"
          /\ pc' # "login_post"
          /\ auth_handler' = auth_handler
          /\ reqs'[Len(reqs')].kind = "login_page"
    /\ ( /\ LoginPageArrives /\ PageToken(response') # None
         /\ get_initial_credentials(auth_handler).raised = "none" ) =>
          /\ pc' = "login_post"
          /\ locals'.csrf_token = PageToken(response')
          /\ response'.set_sid # None =>
                locals'.session_id = response'.set_sid
          /\ response'.set_route # None =>
                locals'.route_cookie = "ROUTE=" \o response'.set_route

\* The login check of this step is accepted, after a login page that set
\* both a JSESSIONID and a ROUTE cookie.
LoginEstablishes ==
    /\ pc = "login_post"
    /\ response.set_sid # None /\ response.set_route # None
    /\ response'.exc = "none" /\ response'.status = 200 /\ ~response'.jssc

(* C34 --------------------------------------------------------------------
   From a login page with a _csrf input of value T (or, without such an
   input, a _csrf meta tag of content T) whose response sets JSESSIONID=S and
   ROUTE=R, the session login() establishes has csrf_token T, session_id S
   and route_cookie "ROUTE=R"; a login page with neither element makes
   login() raise the authentication error before any credentials are
   posted. *)
C34_LoginExtraction ==
    [][ /\ ExtractsFromLoginPage
        /\ LoginEstablishes =>
              session_info' = <<SessionInfo(response.set_sid,
                                            PageToken(response),
                                            "ROUTE=" \o response.set_route,
                                            TRUE)>>
      ]_vars

(* C34, amended ----------------------------------------------------------
   As C34, except that a JSESSIONID cookie, a ROUTE cookie or a _csrf token
   that the login check's response supplies replaces the value taken from
   the login page; what the login check does not supply stays as the login
   page gave it. *)
C34_LoginExtractionUnlessReplaced ==
    [][ /\ ExtractsFromLoginPage
        /\ LoginEstablishes =>
              session_info' =
                <<SessionInfo(
                    IF response'.set_sid # None THEN response'.set_sid
                    ELSE response.set_sid,
                    IF PageToken(response') # None THEN PageToken(response')
                    ELSE PageToken(response),
                    IF response'.set_route # None
                    THEN "ROUTE=" \o response'.set_route
                    ELSE "ROUTE=" \o response.set_route,
                    TRUE)>>
      ]_vars

\* A login that was accepted without the login check supplying anything:
\* the session is the one the login page opened.
C34_Witness ==
    /\ pc = "idle" /\ op = "login" /\ outcome = "returned"
    /\ LastRequest.kind = "login_check"
    /\ response.set_sid = None /\ response.set_route = None
    /\ PageToken(response) = None
    /\ session_info = <<SessionInfo("S1", "T1", "ROUTE=R1", TRUE)>>
    /\ reqs[Len(reqs) - 1].kind = "login_page"

\* The hashes of the patches of list l that are marked required, in the
\* order of the list, from its element i on.
RECURSIVE RequiredHashes(_, _)
RequiredHashes(l, i) ==
    IF i > Len(l) THEN <<>>
    ELSE IF l[i].required = <<TRUE>>
    THEN <<l[i].hash[1]>> \o RequiredHashes(l, i + 1)
    ELSE RequiredHashes(l, i + 1)

\* Every patch of the pending patches d that is marked required has a hash.
EveryRequiredHasHash(d) ==
    \A i \in DOMAIN d : \A j \in DOMAIN d[i].patch_list :
        d[i].patch_list[j].required = <<TRUE>>
            => d[i].patch_list[j].hash # <<>>

\* The update's payload has been built.
PayloadBuilt == op = "execute_update" /\ "patches" \in DOMAIN locals

(* C35 --------------------------------------------------------------------
   When execute_update has built its payload with pending patches enabled
   and fetched (every required patch carrying its hash), the payload's
   patches part has, for each fetched category with at least one patch
   marked required, exactly one item, holding the hashes of that category's
   required patches in their order, and has no item for any other category;
   the items follow the order of the fetched categories.  With pending
   patches disabled no request of the call goes to the pending-patches
   endpoint and the patches part is empty. *)
C35_PendingPatchesPayload ==
    /\ (PayloadBuilt /\ include_pending_patches
            /\ EveryRequiredHasHash(locals.pending)) =>
          /\ \E i \in DOMAIN reqs : reqs[i].endpoint = PendingPatchesUrl
          /\ \A i \in DOMAIN locals.pending :
                LET wanted == RequiredHashes(locals.pending[i].patch_list, 1)
                    items == {j \in DOMAIN locals.patches :
                                locals.patches[j].category =
                                    locals.pending[i].category}
                IN  IF wanted = <<>> THEN items = {}
                    ELSE /\ Cardinality(items) = 1
                         /\ \A j \in items :
                               locals.patches[j].hashes = wanted
          /\ \A j \in DOMAIN locals.patches :
                \E i \in DOMAIN locals.pending :
                    locals.pending[i].category = locals.patches[j].category
          /\ \A j, k \in DOMAIN locals.patches :
                j < k => locals.patches[j].category = CategoryNames[1]
                         /\ locals.patches[k].category = CategoryNames[2]
    /\ (op = "execute_update" /\ ~include_pending_patches) =>
          /\ \A i \in DOMAIN reqs : reqs[i].endpoint # PendingPatchesUrl
          /\ PayloadBuilt => locals.patches = <<>>

\* An update posted with the pending patches of two categories: the first
\* has two required patches, of which
\* the payload keeps the two required hashes in order; the second has none
\* marked required and is left out.
C35_Witness ==
    /\ pc = "idle" /\ op = "execute_update" /\ include_pending_patches
    /\ Len(reqs) = 2 /\ reqs[2].kind = "operation" /\ outcome = "returned"
    /\ PayloadBuilt
    /\ Len(locals.pending) = 2
    /\ locals.pending[1].patch_list =
          <<[hash |-> <<"h2">>, required |-> <<TRUE>>],
            [hash |-> <<"h1">>, required |-> <<TRUE>>]>>
    /\ locals.pending[2].patch_list =
          <<[hash |-> <<"h1">>, required |-> <<>>],
            [hash |-> <<"h2">>, required |-> <<FALSE>>]>>
    /\ locals.patches = <<[category |-> "c1", hashes |-> <<"h2", "h1">>]>>

\* Request i of the running or last call is a GET of the update page.
IsUpdatePageGet(i) ==
    reqs[i].endpoint = UpdatePageUrl /\ reqs[i].method = "GET"

(* C36 --------------------------------------------------------------------
   In a get_update_data call every GET of the JSON data endpoint comes
   after a GET of the update page of the same call that was answered; the
   call is about to send the data request only right after that answered
   GET; and an update-page GET that failed with a timeout or network error
   is the call's last request, the call having ended with an exception. *)
C36_UpdatePageBeforeData ==
    op = "get_update_data" =>
        /\ \A i \in DOMAIN reqs :
              /\ reqs[i].endpoint = Endpoint("get_update_data") =>
                    \E j \in 1..(i - 1) :
                        IsUpdatePageGet(j) /\ reqs[j].error = "none"
              /\ (IsUpdatePageGet(i) /\ reqs[i].error # "none") =>
                    /\ i = Len(reqs)
                    /\ pc = "idle"
                    /\ outcome \in Exceptions
        /\ pc = "op_request" =>
              /\ reqs # <<>>
              /\ IsUpdatePageGet(Len(reqs))
              /\ reqs[Len(reqs)].error = "none"

\* A get_update_data call that has sent both requests, the update page
\* first.
C36_Witness ==
    /\ Ended("get_update_data")
    /\ Len(reqs) >= 2
    /\ IsUpdatePageGet(Len(reqs) - 1)
    /\ reqs[Len(reqs) - 1].error = "none"
    /\ reqs[Len(reqs)].endpoint = Endpoint("get_update_data")
    /\ reqs[Len(reqs)].method = "GET"
====
